---- MODULE Spec2Model ----
(***************************************************************************)
(* lastfm-golang: ingestion of a remote paginated scrobble feed into a     *)
(* local deduplicating store (SQLite table + buffered raw JSONL log).      *)
(*                                                                         *)
(* Modelled: store.InsertScrobble / StableSourceHash / MaxPlayedAtUTS /    *)
(* Stats / AppendRaw / Close, lastfm.IsRetryable, the retry wrappers       *)
(* (getPageWithRetry, getSimilarArtistsWithRetry,                          *)
(* getArtistTopTracksWithRetry), cmdBackfill and cmdSync.                  *)
(*                                                                         *)
(* Abstractions:                                                           *)
(*  - strings are TLA+ strings; a uts string is a tuple of one-character   *)
(*    strings so that strconv.ParseInt can be computed character by        *)
(*    character;                                                           *)
(*  - sha256 + hex is an injective encoding of the hashed byte string (no  *)
(*    collision is assumed), so a dedup key is represented by the byte     *)
(*    string that is hashed;                                               *)
(*  - MBIDs, URL, fetched_at and log output do not influence control flow  *)
(*    and are left out; database and file I/O errors are not modelled;     *)
(*  - time.Sleep only delays; backoff delays are recorded, in seconds.     *)
(***************************************************************************)
EXTENDS Integers, Sequences, FiniteSets, TLC

VARIABLES
  \* ---- remote service (environment)
  feed,         \* scrobbles of the user, newest first, not yet paginated
  nowPlaying,   \* the now-playing marker the service puts first on page 1, or <<>>
  \* ---- durable state of the data directory
  store,        \* rows of table scrobbles, in rowid order
  rawFile,      \* envelopes written to scrobbles.raw.jsonl
  \* ---- process state of a backfill / sync run
  rawBuf,       \* envelopes held by Store.RawJSONLBuf, not yet written
  pc,           \* "idle" | "fetch" | "page"
  cmd,          \* "none" | "backfill" | "sync"
  status,       \* "none" | "running" | "ok" | "error" | "killed"
  page, totalPages, maxSeen, stop, tracks, idx, inserted, ignored,
  \* ---- observations of the current run (history, not read by the program)
  fetched,      \* page numbers fetched successfully, in order
  requested,    \* page numbers for which a request was issued
  reportedTP,   \* TotalPages of the first successful response (-1: none yet)
  emptyAt,      \* Len(fetched) when an empty page was fetched (0: none)
  lastRes,      \* result of the latest InsertScrobble call of the run
  lastTrack,    \* the event passed to that call
  rawStart,     \* number of envelopes (file + buffer) when the run started
  feedSame,     \* the remote feed has not changed since the run started
  prev,         \* the previous run, if the feed has not changed since it
                \* started: "aborted" (error or kill), or the command that
                \* returned 0 ("backfill" | "sync"); "none" otherwise
  runs,         \* number of runs started
  \* ---- retry loop, stepped on its own
  rKind, rState, rCalls,
  \* ---- dedup key of two tuples
  hA, hB, hKeys,
  \* ---- a page inserted twice
  insPage, insPass, insIdx, insRows, insResults, insSnap,
  \* ---- the local queries (verify, digest, recommend) over a table
  qRows,        \* rows of table scrobbles, in rowid order
  qRaw,         \* envelopes of the raw log
  qNow,         \* the clock, unix seconds ('now' of strftime)
  qOut,         \* what the latest operation returned
  \* ---- recommend.Build: ranking of the candidates
  rkArt,        \* artistsAgg in the order the map is iterated: <<[Artist, Score]>>
  rkOpt,        \* recommend.Options of the run
  rkPrev,       \* Output.Tracks of the run before the score was raised
  rkOut,        \* Output.Tracks of the latest run
  rkRaised,     \* the artist whose aggregate score was raised, or ""
  rkPhase,      \* "first", "ranked", "second", "reranked"
  \* ---- one remote call and the classification of its error
  clResp,       \* what the service answered
  clErr,        \* the error the client method returned
  clRetry,      \* IsRetryable(err)
  clPhase,      \* "sent", "returned", "classified"
  \* ---- a recommend run (locals of recommend.Build, stdout)
  recSeeds,     \* seeds
  recAgg,       \* artistsAgg: <<[Artist, Score, From]>>, one entry per key
  recCands,     \* artistCands
  recK,         \* index of the seed / candidate the loop is at
  recTracks,    \* tracks, before the final sort
  recCalls,     \* remote methods called so far, with their argument
  recErr,       \* the error Build returned, or NoErr
  recOut,       \* the document written to stdout, or NoDoc
  \* ---- a run at its blocking calls, and the context it was given
  cxKind,       \* which retry wrapper the run calls
  cxR,          \* locals of the wrapper (attempt, backoff, ...)
  cxPhase,      \* "call", "backoff", "pacing", "returned", "killed"
  cxLeft,       \* what is left of the sleep in progress
  cxPage,       \* wrapper invocations so far
  cxDone,       \* ctx.Done() is closed
  cxAt,         \* the phase in which the context was cancelled, or "none"
  cxSleptAfter, \* time slept since the context was cancelled
  cxCallsAfter  \* client methods called since the context was cancelled

remoteVars == <<feed, nowPlaying>>
diskVars   == <<store, rawFile>>
runVars    == <<rawBuf, pc, cmd, status, page, totalPages, maxSeen, stop, tracks,
                idx, inserted, ignored>>
obsVars    == <<fetched, requested, reportedTP, emptyAt, lastRes, lastTrack,
                rawStart, feedSame, prev, runs>>
mainVars   == <<remoteVars, diskVars, runVars, obsVars>>
retryVars  == <<rKind, rState, rCalls>>
hashVars   == <<hA, hB, hKeys>>
insVars    == <<insPage, insPass, insIdx, insRows, insResults, insSnap>>
queryVars  == <<qRows, qRaw, qNow, qOut>>
rankVars   == <<rkArt, rkOpt, rkPrev, rkOut, rkRaised, rkPhase>>
classVars  == <<clResp, clErr, clRetry, clPhase>>
recVars    == <<recSeeds, recAgg, recCands, recK, recTracks, recCalls, recErr, recOut>>
cancelVars == <<cxKind, cxR, cxPhase, cxLeft, cxPage, cxDone, cxAt, cxSleptAfter,
                cxCallsAfter>>
laterVars  == <<rankVars, classVars, recVars, cancelVars>>
restVars   == <<queryVars, laterVars>>
vars       == <<mainVars, retryVars, hashVars, insVars, restVars>>

-----------------------------------------------------------------------------
(* Bounds of the model *)

\* events per remote page (the program asks for limit = 200)
PageLimit == 2
\* longest remote feed
MaxFeed == 3
\* backfill / sync runs in one behaviour
MaxRuns == 2
\* longest page handed to the insert-twice scenario
MaxInsPage == 3
\* most rows of the table the local queries run over
MaxRows == 3
\* largest aggregate score of a candidate artist before it is raised
MaxScore == 2
\* largest amount a score is raised by
MaxRaise == 1
\* largest HTTP status the service answers with
MaxStatus == 504
\* largest error code in a response body
MaxApiCode == 30
\* wrapper invocations (pages, seeds, candidates) of a run that is cancelled
MaxCancelPages == 2
\* scrobbles the user adds while a backfill is under way
MaxGrowth == 2

(* Program constants *)

PageMaxAttempts == 8
PageMaxBackoff == 30
RecMaxAttempts == 6
RecMaxBackoff == 20
InitialBackoff == 1

-----------------------------------------------------------------------------
(* Strings and integers *)

Min(a, b) == IF a < b THEN a ELSE b

DigitChars == <<"0", "1", "2", "3", "4", "5", "6", "7", "8", "9">>

IsDigit(c) == \E d \in 0..9 : DigitChars[d + 1] = c

DigitVal(c) == CHOOSE d \in 0..9 : DigitChars[d + 1] = c

RECURSIVE DigitsValue(_, _)
DigitsValue(s, acc) ==
  IF s = <<>> THEN acc
  ELSE DigitsValue(Tail(s), acc * 10 + DigitVal(Head(s)))

\* strconv.ParseInt(s, 10, 64): optional sign, then one or more decimal
\* digits, nothing else.  (The int64 range error needs 19 digits and is
\* outside the uts strings considered.)
parseI64(s) ==
  LET signed == s # <<>> /\ Head(s) \in {"+", "-"}
      body   == IF signed THEN Tail(s) ELSE s
  IN  IF body = <<>> \/ \E k \in 1..Len(body) : ~IsDigit(body[k])
      THEN [err |-> TRUE, v |-> 0]
      ELSE [err |-> FALSE,
            v   |-> IF signed /\ Head(s) = "-"
                    THEN 0 - DigitsValue(body, 0)
                    ELSE DigitsValue(body, 0)]

RECURSIVE FormatNat(_)
FormatNat(n) ==
  IF n < 10 THEN DigitChars[n + 1]
  ELSE FormatNat(n \div 10) \o DigitChars[(n % 10) + 1]

\* fmt verb %d
FormatInt(n) == IF n < 0 THEN "-" \o FormatNat(0 - n) ELSE FormatNat(n)

-----------------------------------------------------------------------------
(* package store *)

\* the byte string handed to sha256.Sum256 in StableSourceHash
HashInput(playedAtUTS, artist, track, album) ==
  FormatInt(playedAtUTS) \o "|" \o artist \o "|" \o track \o "|" \o album

\* hex(sha256(b)): injective in b
Sha256Hex(b) == <<"sha256", b>>

StableSourceHash(playedAtUTS, artist, track, album) ==
  Sha256Hex(HashInput(playedAtUTS, artist, track, album))

NULL == "<NULL>"

nullIfEmpty(s) == IF s = "" THEN NULL ELSE s

\* INSERT without the conflict clause taking effect
InsertAlways(rows, row) == [n |-> 1, rows |-> Append(rows, row)]

\* INSERT OR REPLACE: the row holding the key is deleted, the new one added
InsertOrReplace(rows, row) ==
  [n |-> 1,
   rows |-> Append(SelectSeq(rows, LAMBDA r : r.source_hash # row.source_hash), row)]

\* INSERT OR IGNORE INTO scrobbles under UNIQUE(source_hash):
\* n is RowsAffected
InsertOrIgnore(rows, row) ==
  IF \E k \in 1..Len(rows) : rows[k].source_hash = row.source_hash
  THEN [n |-> 0, rows |-> rows]
  ELSE [n |-> 1, rows |-> Append(rows, row)]

\* InsertScrobble without its first test: an absent uts goes to ParseInt
InsertScrobbleUnguarded(rows, t) ==
  LET p == parseI64(t.uts) IN
  IF p.err
  THEN [err |-> TRUE, Inserted |-> 0, Ignored |-> 0, rows |-> rows]
  ELSE
    LET row == [played_at_uts |-> p.v,
                track_name    |-> t.name,
                artist_name   |-> t.artist,
                album_name    |-> nullIfEmpty(t.album),
                source_hash   |-> StableSourceHash(p.v, t.artist, t.name, t.album)]
        r   == InsertOrIgnore(rows, row)
    IN  IF r.n = 0
        THEN [err |-> FALSE, Inserted |-> 0, Ignored |-> 1, rows |-> r.rows]
        ELSE [err |-> FALSE, Inserted |-> 1, Ignored |-> 0, rows |-> r.rows]

\* InsertScrobble that counts an unparsable uts as ignored, without error
InsertScrobbleLenient(rows, t) ==
  IF ~t.hasDate \/ t.uts = <<>> \/ parseI64(t.uts).err
  THEN [err |-> FALSE, Inserted |-> 0, Ignored |-> 1, rows |-> rows]
  ELSE InsertScrobbleUnguarded(rows, t)

InsertScrobble(rows, t) ==
  IF ~t.hasDate \/ t.uts = <<>>
  THEN [err |-> FALSE, Inserted |-> 0, Ignored |-> 1, rows |-> rows]
  ELSE
    LET p == parseI64(t.uts) IN
    IF p.err
    THEN [err |-> TRUE, Inserted |-> 0, Ignored |-> 0, rows |-> rows]
    ELSE
      LET hash == StableSourceHash(p.v, t.artist, t.name, t.album)
          row  == [played_at_uts |-> p.v,
                   track_name    |-> t.name,
                   artist_name   |-> t.artist,
                   album_name    |-> nullIfEmpty(t.album),
                   source_hash   |-> hash]
          r    == InsertOrIgnore(rows, row)
      IN  IF r.n = 0
          THEN [err |-> FALSE, Inserted |-> 0, Ignored |-> 1, rows |-> r.rows]
          ELSE [err |-> FALSE, Inserted |-> 1, Ignored |-> 0, rows |-> r.rows]

PlayedSet(rows) == {rows[k].played_at_uts : k \in 1..Len(rows)}

SetMax(S) == CHOOSE m \in S : \A x \in S : x <= m

SetMin(S) == CHOOSE m \in S : \A x \in S : m <= x

\* SELECT MAX(played_at_uts): 0 when the table is empty
MaxPlayedAtUTS(rows) == IF rows = <<>> THEN 0 ELSE SetMax(PlayedSet(rows))

\* SELECT COUNT(*), MIN(played_at_uts), MAX(played_at_uts)
Stats(rows) ==
  [count  |-> Len(rows),
   minUTS |-> IF rows = <<>> THEN 0 ELSE SetMin(PlayedSet(rows)),
   maxUTS |-> IF rows = <<>> THEN 0 ELSE SetMax(PlayedSet(rows))]

\* SELECT COUNT(*) ... WHERE artist_name = a
ArtistPlays(rows, a) == Cardinality({k \in 1..Len(rows) : rows[k].artist_name = a})

-----------------------------------------------------------------------------
(* package lastfm: errors and their classification *)

NoErr == [kind |-> "none", code |-> 0]

HTTPError(statusCode) == [kind |-> "http", code |-> statusCode]

APIError(c) == [kind |-> "api", code |-> c]

\* fmt.Errorf("decode lastfm response: ...")
DecodeError == [kind |-> "decode", code |-> 0]

\* an error of http.Client.Do or io.ReadAll
NetError == [kind |-> "net", code |-> 0]

\* fmt.Errorf("unreachable") at the end of the retry wrappers
Unreachable == [kind |-> "unreachable", code |-> 0]

\* the classification without the 429 case
IsRetryableServerOnly(err) ==
  \/ err.kind = "http" /\ err.code >= 500
  \/ err.kind = "api" /\ err.code = 29

IsRetryable(err) ==
  \/ err.kind = "http" /\ (err.code >= 500 \/ err.code = 429)
  \/ err.kind = "api" /\ err.code = 29

RetryableErrors == {HTTPError(500), HTTPError(429), APIError(29)}

FatalErrors == {HTTPError(404), APIError(6), DecodeError, NetError}

\* a remote call that returns err == nil
Ok == [kind |-> "ok", code |-> 0]

\* what one remote call can yield
CallOutcomes == {Ok} \cup RetryableErrors \cup FatalErrors

-----------------------------------------------------------------------------
(* The retry wrappers: getPageWithRetry (8 attempts, backoff doubled while  *)
(* below 30 s), getSimilarArtistsWithRetry and getArtistTopTracksWithRetry  *)
(* (6 attempts, backoff doubled while below 20 s).  The three loops are the *)
(* same text up to these two numbers.                                       *)

RetryKinds == {"page", "similar", "toptracks"}

MaxAttemptsOf(kind) == IF kind = "page" THEN PageMaxAttempts ELSE RecMaxAttempts

MaxBackoffOf(kind) == IF kind = "page" THEN PageMaxBackoff ELSE RecMaxBackoff

\* locals on entry: attempt := 1, backoff := 1 s
RetryStart ==
  [attempt |-> 1, backoff |-> InitialBackoff, delays |-> <<>>,
   done |-> FALSE, ok |-> FALSE, err |-> NoErr]

\* the loop body without the IsRetryable test: every error is retried
RetryIterRetryAll(r, outcome, maxAttempts, maxBackoff) ==
  IF outcome = Ok
  THEN [r EXCEPT !.done = TRUE, !.ok = TRUE]
  ELSE IF r.attempt = maxAttempts
  THEN [r EXCEPT !.done = TRUE, !.err = outcome]
  ELSE
    LET slept == [r EXCEPT !.delays = Append(@, r.backoff),
                           !.backoff = IF r.backoff < maxBackoff THEN 2 * r.backoff ELSE r.backoff,
                           !.attempt = r.attempt + 1]
    IN  IF slept.attempt <= maxAttempts
        THEN slept
        ELSE [slept EXCEPT !.done = TRUE, !.err = Unreachable]

\* the loop body without the attempt == maxAttempts test
RetryIterNoCap(r, outcome, maxAttempts, maxBackoff) ==
  IF outcome = Ok
  THEN [r EXCEPT !.done = TRUE, !.ok = TRUE]
  ELSE IF ~IsRetryable(outcome)
  THEN [r EXCEPT !.done = TRUE, !.err = outcome]
  ELSE
    LET slept == [r EXCEPT !.delays = Append(@, r.backoff),
                           !.backoff = IF r.backoff < maxBackoff THEN 2 * r.backoff ELSE r.backoff,
                           !.attempt = r.attempt + 1]
    IN  IF slept.attempt <= maxAttempts
        THEN slept
        ELSE [slept EXCEPT !.done = TRUE, !.err = Unreachable]

\* One iteration of the loop, entered with attempt <= maxAttempts, given
\* the outcome of its remote call; then attempt++ and the loop test.
RetryIter(r, outcome, maxAttempts, maxBackoff) ==
  IF outcome = Ok
  THEN [r EXCEPT !.done = TRUE, !.ok = TRUE]
  ELSE IF ~IsRetryable(outcome) \/ r.attempt = maxAttempts
  THEN [r EXCEPT !.done = TRUE, !.err = outcome]
  ELSE
    LET slept == [r EXCEPT !.delays = Append(@, r.backoff),
                           !.backoff = IF r.backoff < maxBackoff THEN 2 * r.backoff ELSE r.backoff,
                           !.attempt = r.attempt + 1]
    IN  IF slept.attempt <= maxAttempts
        THEN slept
        ELSE [slept EXCEPT !.done = TRUE, !.err = Unreachable]

\* the whole wrapper against a remote that answers script[1], script[2], ...
\* (and success once the script is used up)
RECURSIVE RetryRun(_, _, _, _)
RetryRun(r, script, maxAttempts, maxBackoff) ==
  IF r.done THEN r
  ELSE IF script = <<>>
  THEN RetryRun(RetryIter(r, Ok, maxAttempts, maxBackoff), <<>>, maxAttempts, maxBackoff)
  ELSE RetryRun(RetryIter(r, Head(script), maxAttempts, maxBackoff), Tail(script),
                maxAttempts, maxBackoff)

-----------------------------------------------------------------------------
(* lastfm.Track values used as inputs *)

Track(hasDate, uts, artist, name, album) ==
  [hasDate |-> hasDate, uts |-> uts, artist |-> artist, name |-> name, album |-> album]

\* three ordinary scrobbles
TrkNew == Track(TRUE, <<"3">>, "a", "x", "lp")
TrkMid == Track(TRUE, <<"2">>, "a", "y", "")
TrkOld == Track(TRUE, <<"1">>, "b", "x", "")
\* the same scrobble as TrkNew with its uts written "03"
TrkNewPadded == Track(TRUE, <<"0", "3">>, "a", "x", "lp")
\* two scrobbles that differ in artist and track, whose names hold "|"
TrkBarA == Track(TRUE, <<"2">>, "a|b", "c", "")
TrkBarB == Track(TRUE, <<"2">>, "a", "b|c", "")
\* a uts that is no integer
TrkBadUTS == Track(TRUE, <<"x">>, "a", "x", "")
\* now-playing markers: Date == nil, and Date.UTS == ""
TrkNowPlaying == Track(FALSE, <<>>, "a", "z", "")
TrkEmptyUTS == Track(TRUE, <<>>, "a", "z", "")

NoTrack == Track(FALSE, <<>>, "", "", "")

\* lastRes before any call; a call records its InsertResult and error, whether
\* the key was already in the table (dup), and by how much the table (rows)
\* and the raw log, file plus buffer (envs), grew
NoRes ==
  [called |-> FALSE, err |-> FALSE, Inserted |-> 0, Ignored |-> 0,
   dup |-> FALSE, rows |-> 0, envs |-> 0]

HasTimestamp(t) == t.hasDate /\ t.uts # <<>>

Parsable(t) == HasTimestamp(t) /\ ~parseI64(t.uts).err

KeyOf(t) == StableSourceHash(parseI64(t.uts).v, t.artist, t.name, t.album)

HasKey(rows, key) == \E k \in 1..Len(rows) : rows[k].source_hash = key

Observed(res, t, rowsBefore, rowsAfter, envsBefore, envsAfter) ==
  [called |-> TRUE, err |-> res.err, Inserted |-> res.Inserted, Ignored |-> res.Ignored,
   dup  |-> Parsable(t) /\ HasKey(rowsBefore, KeyOf(t)),
   rows |-> Len(rowsAfter) - Len(rowsBefore),
   envs |-> envsAfter - envsBefore]

\* sequences over S of length 0..n
RECURSIVE SeqsUpTo(_, _)
SeqsUpTo(S, n) ==
  IF n = 0 THEN {<<>>}
  ELSE LET shorter == SeqsUpTo(S, n - 1)
       IN  shorter \cup {Append(q, x) : q \in {r \in shorter : Len(r) = n - 1}, x \in S}

-----------------------------------------------------------------------------
(* Specification SpecRetry: one retry wrapper against an arbitrary remote *)

IdleMain ==
  /\ feed = <<>> /\ nowPlaying = <<>>
  /\ store = <<>> /\ rawFile = <<>> /\ rawBuf = <<>>
  /\ pc = "idle" /\ cmd = "none" /\ status = "none"
  /\ page = 1 /\ totalPages = -1 /\ maxSeen = 0 /\ stop = FALSE
  /\ tracks = <<>> /\ idx = 1 /\ inserted = 0 /\ ignored = 0
  /\ fetched = <<>> /\ requested = {} /\ reportedTP = -1 /\ emptyAt = 0
  /\ lastRes = NoRes /\ lastTrack = NoTrack
  /\ rawStart = 0 /\ feedSame = TRUE
  /\ prev = "none"
  /\ runs = 0

IdleRetry == rKind = "page" /\ rState = RetryStart /\ rCalls = <<>>

IdleHash == hA = <<>> /\ hB = <<>> /\ hKeys = <<>>

IdleIns ==
  /\ insPage = <<>> /\ insPass = 0 /\ insIdx = 1 /\ insRows = <<>>
  /\ insResults = <<>> /\ insSnap = <<>>

IdleQuery == qRows = <<>> /\ qRaw = <<>> /\ qNow = 0 /\ qOut = <<>>

IdleRank ==
  /\ rkArt = <<>> /\ rkOpt = <<>> /\ rkPrev = <<>> /\ rkOut = <<>>
  /\ rkRaised = "" /\ rkPhase = "first"

IdleClass == clResp = <<>> /\ clErr = <<>> /\ clRetry = FALSE /\ clPhase = "sent"

IdleRec ==
  /\ recSeeds = <<>> /\ recAgg = <<>> /\ recCands = <<>> /\ recK = 1
  /\ recTracks = <<>> /\ recCalls = <<>>
  /\ recErr = [kind |-> "none", code |-> 0]
  /\ recOut = [emitted |-> FALSE, Seeds |-> <<>>, Artists |-> <<>>, Tracks |-> <<>>]

IdleCancel ==
  /\ cxKind = "page" /\ cxR = <<>> /\ cxPhase = "call" /\ cxLeft = 0 /\ cxPage = 1
  /\ cxDone = FALSE /\ cxAt = "none" /\ cxSleptAfter = 0 /\ cxCallsAfter = 0

IdleLater == IdleRank /\ IdleClass /\ IdleRec /\ IdleCancel

IdleRest == IdleQuery /\ IdleLater

InitRetry ==
  /\ IdleMain /\ IdleHash /\ IdleIns /\ IdleRest
  /\ rKind \in RetryKinds
  /\ rState = RetryStart
  /\ rCalls = <<>>

\* one pass through the loop body: the remote call returns o
RetryCall ==
  /\ ~rState.done
  /\ \E o \in CallOutcomes :
       /\ rState' = RetryIter(rState, o, MaxAttemptsOf(rKind), MaxBackoffOf(rKind))
       /\ rCalls' = Append(rCalls, o)
  /\ UNCHANGED <<rKind, mainVars, hashVars, insVars, restVars>>

NextRetry == RetryCall

SpecRetry == InitRetry /\ [][NextRetry]_vars

\* C5: for each retry wrapper (cap 8 for pages, 6 for similar artists and
\* top tracks): no more than cap calls are made; a success at call N+1 after
\* N retryable failures is returned at once, and that happens only for
\* N < cap; while fewer than cap calls have all failed retryably the loop
\* goes on; after cap retryable failures it returns the error of the last
\* call; an error return always carries the error of the last call; the
\* delays slept so far are non-decreasing, one per retried failure.
C5_RetryBound ==
  LET cap == MaxAttemptsOf(rKind)
      n   == Len(rCalls)
      allRetryable == \A k \in 1..n : IsRetryable(rCalls[k])
      d   == rState.delays
  IN  /\ n <= cap
      /\ (n > 0 /\ rCalls[n] = Ok) => (rState.done /\ rState.ok)
      /\ (rState.done /\ rState.ok) =>
            /\ n >= 1 /\ rCalls[n] = Ok
            /\ \A k \in 1..(n - 1) : IsRetryable(rCalls[k])
            /\ n - 1 < cap
      /\ (allRetryable /\ n < cap) => ~rState.done
      /\ (allRetryable /\ n = cap) =>
            (rState.done /\ ~rState.ok /\ rState.err = rCalls[cap])
      /\ (rState.done /\ ~rState.ok) => rState.err = rCalls[n]
      /\ \A k \in 1..(Len(d) - 1) : d[k] <= d[k + 1]
      /\ Len(d) = IF rState.done THEN n - 1 ELSE n

\* the page wrapper succeeds on its last allowed attempt (N = cap - 1)
C5_Witness ==
  /\ rKind = "page"
  /\ rState.done /\ rState.ok
  /\ Len(rCalls) = PageMaxAttempts

-----------------------------------------------------------------------------
(* Specification SpecHash: the dedup keys of two (played_at, artist, track, *)
(* album) tuples, and the two events inserted into an empty table           *)

HashNames == {"", "a", "|"}

HashTuples ==
  {Track(TRUE, u, ar, tr, al) :
     u \in {<<"1">>, <<"1", "2">>}, ar \in HashNames, tr \in HashNames, al \in HashNames}

InitHash ==
  /\ IdleMain /\ IdleRetry /\ IdleIns /\ IdleRest
  /\ hA \in HashTuples
  /\ hB \in HashTuples
  /\ hKeys = <<>>

HashCompute ==
  /\ hKeys = <<>>
  /\ hKeys' = <<KeyOf(hA), KeyOf(hB)>>
  /\ UNCHANGED <<hA, hB, mainVars, retryVars, insVars, restVars>>

HashStore ==
  /\ Len(hKeys) = 2
  /\ hKeys' = Append(hKeys, InsertScrobble(InsertScrobble(<<>>, hA).rows, hB).rows)
  /\ UNCHANGED <<hA, hB, mainVars, retryVars, insVars, restVars>>

NextHash == HashCompute \/ HashStore

SpecHash == InitHash /\ [][NextHash]_vars

\* C7: two tuples that differ in a field have different hashed byte strings
\* (hence different keys), and both are stored.
C7_KeySeparation ==
  (Len(hKeys) >= 2 /\ hA # hB) =>
     /\ hKeys[1] # hKeys[2]
     /\ Len(hKeys) = 3 => Len(hKeys[3]) = 2

-----------------------------------------------------------------------------
(* Specification SpecInsert: the events of one page passed to              *)
(* InsertScrobble one by one, and then once more                           *)

InsTracks ==
  {TrkNew, TrkMid, TrkOld, TrkNewPadded, TrkBarA, TrkBarB, TrkBadUTS,
   TrkNowPlaying, TrkEmptyUTS}

InsArtists == {t.artist : t \in InsTracks}

Snapshot(rows) ==
  [stats |-> Stats(rows), plays |-> [a \in InsArtists |-> ArtistPlays(rows, a)]]

InitInsert ==
  /\ IdleMain /\ IdleRetry /\ IdleHash /\ IdleRest
  /\ insPage \in SeqsUpTo(InsTracks, MaxInsPage)
  /\ insPass = 1
  /\ insIdx = 1
  /\ insRows = <<>>
  /\ insResults = <<>>
  /\ insSnap = Snapshot(<<>>)

InsertNext ==
  /\ insPass \in {1, 2}
  /\ insIdx <= Len(insPage)
  /\ LET res == InsertScrobble(insRows, insPage[insIdx])
     IN  /\ insRows' = res.rows
         /\ insResults' = IF insPass = 2 THEN Append(insResults, res.Inserted)
                          ELSE insResults
  /\ insIdx' = insIdx + 1
  /\ UNCHANGED <<insPage, insPass, insSnap, mainVars, retryVars, hashVars, restVars>>

\* the first pass is over; the table stays on disk (possibly for a later
\* process) and the page is inserted again
InsertAgain ==
  /\ insPass = 1
  /\ insIdx > Len(insPage)
  /\ insPass' = 2
  /\ insIdx' = 1
  /\ insSnap' = Snapshot(insRows)
  /\ UNCHANGED <<insPage, insRows, insResults, mainVars, retryVars, hashVars, restVars>>

NextInsert == InsertNext \/ InsertAgain

SpecInsert == InitInsert /\ [][NextInsert]_vars

\* C1: during the second insertion of a page every call reports
\* Inserted = 0, and count, min and max timestamp and the play count of
\* every artist stay what they were after the first insertion.
C1_InsertIdempotent ==
  insPass = 2 =>
    /\ \A k \in 1..Len(insResults) : insResults[k] = 0
    /\ Snapshot(insRows) = insSnap

\* a three-event page with at least two stored events has been inserted twice
C1_Witness ==
  /\ insPass = 2
  /\ Len(insPage) = 3
  /\ insIdx > Len(insPage)
  /\ Len(insResults) = 3
  /\ Len(insRows) >= 2

-----------------------------------------------------------------------------
(* Specification Spec: backfill and sync runs against a remote feed        *)

MainTracks == {TrkNew, TrkBarA, TrkBarB, TrkOld, TrkBadUTS}

NowPlayingForms == {<<>>, <<TrkNowPlaying>>, <<TrkEmptyUTS>>}

\* sequences over S without repetition, of length 0..n
DistinctSeqs(S, n) ==
  {q \in SeqsUpTo(S, n) : \A i, j \in 1..Len(q) : i < j => q[i] # q[j]}

\* user.getrecenttracks as answered by the service for (page, limit):
\* the page-th block of limit scrobbles, newest first, the now-playing
\* marker first on page 1, and totalPages counted over the scrobbles.
\* GetRecentTracksPage copies Tracks and TotalPages into lastfm.Page.
RemotePage(fd, np, pg) ==
  LET lo    == (pg - 1) * PageLimit + 1
      hi    == Min(pg * PageLimit, Len(fd))
      block == IF lo > Len(fd) THEN <<>> ELSE SubSeq(fd, lo, hi)
  IN  [Tracks     |-> IF pg = 1 THEN np \o block ELSE block,
       TotalPages |-> (Len(fd) + PageLimit - 1) \div PageLimit]

\* answers of the service to the successive calls of one getPageWithRetry:
\* success at once, success after one retry, a fatal error, retryable
\* errors throughout
FetchScripts ==
  {<<>>, <<HTTPError(500)>>, <<APIError(6)>>,
   [k \in 1..PageMaxAttempts |-> APIError(29)]}

getPageWithRetry(script) ==
  RetryRun(RetryStart, script, PageMaxAttempts, PageMaxBackoff)

Init ==
  /\ IdleRetry /\ IdleHash /\ IdleIns /\ IdleRest
  /\ feed \in DistinctSeqs(MainTracks, MaxFeed)
  /\ nowPlaying \in NowPlayingForms
  /\ store = <<>> /\ rawFile = <<>> /\ rawBuf = <<>>
  /\ pc = "idle" /\ cmd = "none" /\ status = "none"
  /\ page = 1 /\ totalPages = -1 /\ maxSeen = 0 /\ stop = FALSE
  /\ tracks = <<>> /\ idx = 1 /\ inserted = 0 /\ ignored = 0
  /\ fetched = <<>> /\ requested = {} /\ reportedTP = -1 /\ emptyAt = 0
  /\ lastRes = NoRes /\ lastTrack = NoTrack
  /\ rawStart = 0 /\ feedSame = TRUE
  /\ prev = "none"
  /\ runs = 0

\* run(): store.Open, then the command's locals
StartRun(c) ==
  /\ pc = "idle"
  /\ runs < MaxRuns
  /\ runs' = runs + 1
  /\ prev' = IF ~feedSame THEN "none"
             ELSE IF status \in {"error", "killed"} THEN "aborted"
             ELSE IF status = "ok" THEN cmd
             ELSE "none"
  /\ feedSame' = TRUE
  /\ cmd' = c
  /\ status' = "running"
  /\ pc' = "fetch"
  /\ rawBuf' = <<>>
  /\ page' = 1
  /\ totalPages' = -1
  /\ maxSeen' = IF c = "sync" THEN MaxPlayedAtUTS(store) ELSE 0
  /\ stop' = FALSE
  /\ tracks' = <<>>
  /\ idx' = 1
  /\ inserted' = 0
  /\ ignored' = 0
  /\ fetched' = <<>>
  /\ requested' = {}
  /\ reportedTP' = -1
  /\ emptyAt' = 0
  /\ lastRes' = NoRes
  /\ lastTrack' = NoTrack
  /\ rawStart' = Len(rawFile)
  /\ UNCHANGED <<remoteVars, diskVars, retryVars, hashVars, insVars, restVars>>

StartBackfill == StartRun("backfill")

StartSync == StartRun("sync")

\* a return that reports success whatever the code
ReturnZero(code) ==
  /\ status' = "ok"
  /\ pc' = "idle"
  /\ rawFile' = rawFile \o rawBuf
  /\ rawBuf' = <<>>

\* a return whose deferred s.Close() does not flush the raw buffer
ReturnNoFlush(code) ==
  /\ status' = IF code = 0 THEN "ok" ELSE "error"
  /\ pc' = "idle"
  /\ rawFile' = rawFile
  /\ rawBuf' = rawBuf

\* the command returns code: the deferred s.Close() flushes the raw buffer
Return(code) ==
  /\ status' = IF code = 0 THEN "ok" ELSE "error"
  /\ pc' = "idle"
  /\ rawFile' = rawFile \o rawBuf
  /\ rawBuf' = <<>>

\* totalPages taken from every response
FixTotalPagesAlways(cur, reported) == IF reported = 0 THEN 1 ELSE reported

\* "if totalPages == -1 { totalPages = p.TotalPages; if totalPages == 0 {
\* totalPages = 1 } }"
FixTotalPages(cur, reported) ==
  IF cur = -1 THEN (IF reported = 0 THEN 1 ELSE reported) ELSE cur

BackfillFetch ==
  /\ pc = "fetch" /\ cmd = "backfill"
  /\ requested' = requested \cup {page}
  /\ \E script \in FetchScripts :
       LET r == getPageWithRetry(script)
           p == RemotePage(feed, nowPlaying, page)
       IN  IF ~r.ok
           THEN /\ Return(1)
                /\ UNCHANGED <<totalPages, tracks, idx, fetched, reportedTP, emptyAt>>
           ELSE /\ totalPages' = FixTotalPages(totalPages, p.TotalPages)
                /\ fetched' = Append(fetched, page)
                /\ reportedTP' = IF fetched = <<>> THEN p.TotalPages ELSE reportedTP
                /\ IF Len(p.Tracks) = 0
                   THEN /\ Return(0)
                        /\ emptyAt' = Len(fetched) + 1
                        /\ UNCHANGED <<tracks, idx>>
                   ELSE /\ tracks' = p.Tracks
                        /\ idx' = 1
                        /\ pc' = "page"
                        /\ UNCHANGED <<status, rawFile, rawBuf, emptyAt>>
  /\ UNCHANGED <<remoteVars, store, cmd, page, maxSeen, stop, inserted, ignored,
                 lastRes, lastTrack, rawStart, feedSame, prev, runs,
                 retryVars, hashVars, insVars, restVars>>

\* s.AppendRaw(t) never called
ShouldAppendRawNever(res) == FALSE

\* "if res.Inserted > 0" before s.AppendRaw(t), with the test left out
ShouldAppendRawAlways(res) == TRUE

\* "if res.Inserted > 0" before s.AppendRaw(t)
ShouldAppendRaw(res) == res.Inserted > 0

\* one iteration of "for _, t := range p.Tracks"
BackfillInsert ==
  /\ pc = "page" /\ cmd = "backfill"
  /\ idx <= Len(tracks)
  /\ LET t   == tracks[idx]
         res == InsertScrobble(store, t)
     IN  /\ lastTrack' = t
         /\ IF res.err
            THEN /\ Return(1)
                 /\ UNCHANGED <<store, inserted, ignored, idx>>
            ELSE /\ store' = res.rows
                 /\ rawBuf' = IF ShouldAppendRaw(res) THEN Append(rawBuf, t) ELSE rawBuf
                 /\ inserted' = inserted + res.Inserted
                 /\ ignored' = ignored + res.Ignored
                 /\ idx' = idx + 1
                 /\ UNCHANGED <<status, pc, rawFile>>
         /\ lastRes' = Observed(res, t, store, store', Len(rawFile) + Len(rawBuf),
                                Len(rawFile') + Len(rawBuf'))
  /\ UNCHANGED <<remoteVars, cmd, page, totalPages, maxSeen, stop, tracks,
                 fetched, requested, reportedTP, emptyAt, rawStart, feedSame, prev, runs,
                 retryVars, hashVars, insVars, restVars>>

\* "if totalPages != -1 && page >= totalPages" with > for >=
BackfillBreakLate(pg, tp) == tp # -1 /\ pg > tp

\* "if totalPages != -1 && page >= totalPages { break }"
BackfillBreak(pg, tp) == tp # -1 /\ pg >= tp

\* after the range loop: Flush, then break or page++
BackfillEndPage ==
  /\ pc = "page" /\ cmd = "backfill"
  /\ idx > Len(tracks)
  /\ IF BackfillBreak(page, totalPages)
     THEN /\ Return(0)
          /\ UNCHANGED page
     ELSE /\ rawFile' = rawFile \o rawBuf
          /\ rawBuf' = <<>>
          /\ page' = page + 1
          /\ pc' = "fetch"
          /\ UNCHANGED status
  /\ UNCHANGED <<remoteVars, store, cmd, totalPages, maxSeen, stop, tracks, idx,
                 inserted, ignored, obsVars, retryVars, hashVars, insVars, restVars>>

SyncFetch ==
  /\ pc = "fetch" /\ cmd = "sync"
  /\ requested' = requested \cup {page}
  /\ \E script \in FetchScripts :
       LET r == getPageWithRetry(script)
           p == RemotePage(feed, nowPlaying, page)
       IN  IF ~r.ok
           THEN /\ Return(1)
                /\ UNCHANGED <<tracks, idx, fetched, reportedTP, emptyAt>>
           ELSE /\ fetched' = Append(fetched, page)
                /\ reportedTP' = IF fetched = <<>> THEN p.TotalPages ELSE reportedTP
                /\ IF Len(p.Tracks) = 0
                   THEN /\ Return(0)
                        /\ emptyAt' = Len(fetched) + 1
                        /\ UNCHANGED <<tracks, idx>>
                   ELSE /\ tracks' = p.Tracks
                        /\ idx' = 1
                        /\ pc' = "page"
                        /\ UNCHANGED <<status, rawFile, rawBuf, emptyAt>>
  /\ UNCHANGED <<remoteVars, store, cmd, page, totalPages, maxSeen, stop, inserted,
                 ignored, lastRes, lastTrack, rawStart, feedSame, prev, runs,
                 retryVars, hashVars, insVars, restVars>>

\* the overlap test with uts < maxSeen for uts <= maxSeen
SyncStopStrict(t, seen, flag) ==
  IF t.hasDate /\ t.uts # <<>>
  THEN LET u == parseI64(t.uts)
       IN  IF ~u.err /\ seen # 0 /\ u.v < seen THEN TRUE ELSE flag
  ELSE flag

\* the overlap test with uts >= maxSeen for uts <= maxSeen
SyncStopAbove(t, seen, flag) ==
  IF t.hasDate /\ t.uts # <<>>
  THEN LET u == parseI64(t.uts)
       IN  IF ~u.err /\ seen # 0 /\ u.v >= seen THEN TRUE ELSE flag
  ELSE flag

\* the overlap test with "maxSeen == 0 ||" for "maxSeen != 0 &&"
SyncStopZeroWatermark(t, seen, flag) ==
  IF t.hasDate /\ t.uts # <<>>
  THEN LET u == parseI64(t.uts)
       IN  IF ~u.err /\ (seen = 0 \/ u.v <= seen) THEN TRUE ELSE flag
  ELSE flag

\* the overlap test of cmdSync on track t: the new value of stop
SyncStop(t, seen, flag) ==
  IF t.hasDate /\ t.uts # <<>>
  THEN LET u == parseI64(t.uts)
       IN  IF ~u.err /\ seen # 0 /\ u.v <= seen THEN TRUE ELSE flag
  ELSE flag

\* the range loop left as soon as the stop flag is set
SyncRangeDoneOnStop(i, tr, flag) == i > Len(tr) \/ flag

\* "for _, t := range p.Tracks" of cmdSync is over: the loop has no break,
\* so only the position decides, never the stop flag
SyncRangeDone(i, tr, flag) == i > Len(tr)

\* the watermark read again from the store at every overlap test
SyncWatermarkLive(seen, rows) == MaxPlayedAtUTS(rows)

\* the watermark of the overlap test: the local maxSeen that cmdSync read
\* before the loop; the loop never asks the store again
SyncWatermark(seen, rows) == seen

SyncInsert ==
  /\ pc = "page" /\ cmd = "sync"
  /\ ~SyncRangeDone(idx, tracks, stop)
  /\ LET t   == tracks[idx]
         res == InsertScrobble(store, t)
     IN  /\ lastTrack' = t
         /\ IF res.err
            THEN /\ Return(1)
                 /\ UNCHANGED <<store, inserted, ignored, idx, stop>>
            ELSE /\ store' = res.rows
                 /\ rawBuf' = IF ShouldAppendRaw(res) THEN Append(rawBuf, t) ELSE rawBuf
                 /\ inserted' = inserted + res.Inserted
                 /\ ignored' = ignored + res.Ignored
                 /\ stop' = SyncStop(t, SyncWatermark(maxSeen, store'), stop)
                 /\ idx' = idx + 1
                 /\ UNCHANGED <<status, pc, rawFile>>
         /\ lastRes' = Observed(res, t, store, store', Len(rawFile) + Len(rawBuf),
                                Len(rawFile') + Len(rawBuf'))
  /\ UNCHANGED <<remoteVars, cmd, page, totalPages, maxSeen, tracks,
                 fetched, requested, reportedTP, emptyAt, rawStart, feedSame, prev, runs,
                 retryVars, hashVars, insVars, restVars>>

\* the page number left as it is
SyncNextPageSame(pg) == pg

\* "page++" at the end of an iteration of the loop of cmdSync
SyncNextPage(pg) == pg + 1

SyncEndPage ==
  /\ pc = "page" /\ cmd = "sync"
  /\ SyncRangeDone(idx, tracks, stop)
  /\ IF stop
     THEN /\ Return(0)
          /\ UNCHANGED page
     ELSE /\ rawFile' = rawFile \o rawBuf
          /\ rawBuf' = <<>>
          /\ page' = SyncNextPage(page)
          /\ pc' = "fetch"
          /\ UNCHANGED status
  /\ UNCHANGED <<remoteVars, store, cmd, totalPages, maxSeen, stop, tracks, idx,
                 inserted, ignored, obsVars, retryVars, hashVars, insVars, restVars>>

\* The process is ended from outside (SIGINT, SIGKILL, power loss) during
\* a run: committed rows stay, the unflushed raw buffer is lost, no
\* deferred call runs.
Kill ==
  /\ pc \in {"fetch", "page"}
  /\ status' = "killed"
  /\ pc' = "idle"
  /\ rawBuf' = <<>>
  /\ UNCHANGED <<remoteVars, diskVars, cmd, page, totalPages, maxSeen, stop, tracks,
                 idx, inserted, ignored, obsVars, retryVars, hashVars, insVars, restVars>>

\* The user scrobbles another track: it becomes the head of the feed.
\* (The program reads the feed only when it fetches a page, so a change
\* while a page is being processed is the same as one just before the next
\* fetch.)
FeedGrow ==
  /\ pc # "page"
  /\ Len(feed) < MaxFeed
  /\ \E t \in MainTracks :
       /\ \A k \in 1..Len(feed) : feed[k] # t
       /\ feed' = <<t>> \o feed
  /\ feedSame' = FALSE
  /\ UNCHANGED <<nowPlaying, diskVars, runVars, fetched, requested, reportedTP, emptyAt,
                 lastRes, lastTrack, rawStart, prev, runs, retryVars, hashVars, insVars, restVars>>

Next ==
  \/ StartBackfill
  \/ StartSync
  \/ BackfillFetch
  \/ BackfillInsert
  \/ BackfillEndPage
  \/ SyncFetch
  \/ SyncInsert
  \/ SyncEndPage
  \/ Kill
  \/ FeedGrow

Spec == Init /\ [][Next]_vars

-----------------------------------------------------------------------------
(* Properties of backfill and sync runs *)

TsOf(t) == parseI64(t.uts).v

\* every event carries an integer timestamp and they never increase
Descending(fd) ==
  /\ \A k \in 1..Len(fd) : Parsable(fd[k])
  /\ \A i, j \in 1..Len(fd) : i < j => TsOf(fd[i]) >= TsOf(fd[j])

\* position in fd of the first event with timestamp <= w, 0 if there is none
FirstOverlap(fd, w) ==
  LET hits == {k \in 1..Len(fd) : Parsable(fd[k]) /\ TsOf(fd[k]) <= w}
  IN  IF hits = {} THEN 0 ELSE SetMin(hits)

\* the page that holds position k of the feed
PageOfIndex(k) == ((k - 1) \div PageLimit) + 1

\* q = <<1, 2, ..., Len(q)>>
Counting(q) == \A k \in 1..Len(q) : q[k] = k

RawCount == Len(rawFile) + Len(rawBuf)

\* C2: in a sync run with watermark W # 0 over an unchanged feed in
\* descending order that holds an event with timestamp <= W, no page after
\* the page of the first such event is requested, and a run that returns 0
\* has fetched exactly the pages up to that one.
C2_SyncStopsAtOverlap ==
  (/\ cmd = "sync" /\ maxSeen # 0 /\ feedSame
   /\ Descending(feed) /\ FirstOverlap(feed, maxSeen) # 0)
  => LET last == PageOfIndex(FirstOverlap(feed, maxSeen))
     IN  /\ \A q \in requested : q <= last
         /\ status = "ok" => (Len(fetched) = last /\ Counting(fetched))

\* a sync that walked two pages and stopped on the second, where the overlap is
C2_Witness ==
  /\ cmd = "sync" /\ status = "ok" /\ maxSeen # 0 /\ feedSame
  /\ Descending(feed)
  /\ PageOfIndex(FirstOverlap(feed, maxSeen)) = 2
  /\ fetched = <<1, 2>>
  /\ inserted >= 1

\* totalPages as backfill fixes it from the first response
FixedTP == IF reportedTP = 0 THEN 1 ELSE reportedTP

\* C3 as stated: a backfill that returns 0 without having fetched an empty
\* page has fetched exactly pages 1..P, P the totalPages of the first
\* response; a fetched empty page ends the run at once.
C3_BackfillFetchesReported ==
  cmd = "backfill" =>
    /\ (status = "ok" /\ emptyAt = 0) =>
          (Len(fetched) = reportedTP /\ Counting(fetched))
    /\ emptyAt # 0 => (emptyAt = Len(fetched) /\ pc = "idle" /\ status = "ok")

\* C3 amended: the same with P the reported totalPages, a reported 0
\* counting as 1; while no empty page was fetched, at most P pages are.
C3_BackfillFetchesFixed ==
  cmd = "backfill" =>
    /\ (status = "ok" /\ emptyAt = 0) =>
          (Len(fetched) = FixedTP /\ Counting(fetched))
    /\ (fetched # <<>> /\ emptyAt = 0) =>
          (Len(fetched) <= FixedTP /\ Counting(fetched))
    /\ emptyAt # 0 => (emptyAt = Len(fetched) /\ pc = "idle" /\ status = "ok")

\* a second backfill over two pages that were all stored before
C3_Witness ==
  /\ cmd = "backfill" /\ status = "ok" /\ emptyAt = 0
  /\ reportedTP = 2 /\ fetched = <<1, 2>>
  /\ runs = 2 /\ inserted = 0 /\ ignored >= 3

\* C4: a sync that returns 0 after an aborted run (error or kill), the feed
\* unchanged since that run began, leaves the key of every event of the
\* feed in the table.  (Stated for feeds in descending order, all of whose
\* events carry an integer timestamp.)
C4_ResumeBySync ==
  (cmd = "sync" /\ status = "ok" /\ prev = "aborted" /\ feedSame /\ Descending(feed))
  => \A k \in 1..Len(feed) :
        Parsable(feed[k]) => HasKey(store, KeyOf(feed[k]))

\* C8: an InsertScrobble call on an event without timestamp returns
\* Ignored = 1 and no error and leaves table and raw log as they were; no
\* envelope of the raw log is of such an event.
C8_NowPlayingIgnored ==
  /\ (lastRes.called /\ ~HasTimestamp(lastTrack)) =>
        /\ ~lastRes.err
        /\ lastRes.Inserted = 0 /\ lastRes.Ignored = 1
        /\ lastRes.rows = 0 /\ lastRes.envs = 0
  /\ \A k \in 1..Len(rawFile) : HasTimestamp(rawFile[k])
  /\ \A k \in 1..Len(rawBuf) : HasTimestamp(rawBuf[k])

\* a run has just passed a marker with Date.UTS == "" to InsertScrobble
C8_Witness ==
  /\ pc = "page" /\ idx = 2
  /\ lastRes.called
  /\ lastTrack = TrkEmptyUTS
  /\ ignored = 1

\* C9: a call appends one envelope if it returned Inserted = 1 and none
\* otherwise; a key already in the table gives Ignored = 1, no error, no
\* new row and no envelope; the envelopes added by a run are as many as its
\* inserts (a kill can only lose some); a run that repeats the command
\* that last returned 0, the feed unchanged since, adds no envelope.
C9_RawOncePerInsert ==
  /\ lastRes.called =>
        /\ lastRes.envs = lastRes.Inserted
        /\ lastRes.rows = lastRes.Inserted
        /\ lastRes.dup =>
              (lastRes.Ignored = 1 /\ ~lastRes.err /\ lastRes.envs = 0 /\ lastRes.rows = 0)
  /\ cmd \in {"backfill", "sync"} =>
        IF status = "killed"
        THEN Len(rawFile) - rawStart <= inserted
        ELSE RawCount - rawStart = inserted
  /\ (cmd \in {"backfill", "sync"} /\ prev = cmd /\ feedSame) => RawCount = rawStart

\* a backfill repeated over an unchanged two-page feed has ended
C9_Witness ==
  /\ cmd = "backfill" /\ prev = "backfill" /\ feedSame
  /\ status = "ok"
  /\ lastRes.dup
  /\ fetched = <<1, 2>>
  /\ rawStart >= 2 /\ ignored >= 3

\* C10: no two rows of the table have the same source_hash.
C10_UniqueKeys ==
  \A i, j \in 1..Len(store) : i < j => store[i].source_hash # store[j].source_hash

\* a scrobble whose key equals that of a stored, different scrobble was
\* passed to InsertScrobble, and later the stored one again in a second run
C10_Witness ==
  /\ Len(store) >= 2
  /\ runs = 2
  /\ lastRes.called /\ lastRes.dup
  /\ lastTrack = TrkBarB
  /\ \E k \in 1..Len(store) : store[k].artist_name = TrkBarA.artist

-----------------------------------------------------------------------------
(* SQLite: storage classes, affinity and comparison, as the queries of      *)
(* verify, digest and recommend use them                                    *)

\* 2000-01-01T00:00:00Z, the sane-epoch threshold
MinSaneUTS == 946684800

\* seconds in the day of a "-N days" modifier
Day == 86400

\* the decimal digits of n, one character each
RECURSIVE NatDigits(_)
NatDigits(n) ==
  IF n < 10 THEN <<DigitChars[n + 1]>>
  ELSE Append(NatDigits(n \div 10), DigitChars[(n % 10) + 1])

\* memcmp order of two digit strings
RECURSIVE DigitsLess(_, _)
DigitsLess(a, b) ==
  IF b = <<>> THEN FALSE
  ELSE IF a = <<>> THEN TRUE
  ELSE IF Head(a) # Head(b) THEN DigitVal(Head(a)) < DigitVal(Head(b))
  ELSE DigitsLess(Tail(a), Tail(b))

SqlInteger(n) == [cls |-> "integer", v |-> n]

\* a TEXT value, given by its characters
SqlText(chars) == [cls |-> "text", v |-> chars]

\* NUMERIC affinity applied to a value: TEXT that is a well-formed integer
\* literal is converted to INTEGER
ApplyNumeric(x) ==
  IF x.cls = "text" /\ ~parseI64(x.v).err THEN SqlInteger(parseI64(x.v).v) ELSE x

\* The operands of a comparison after the affinity rule.  The affinity of
\* an operand is "INTEGER" for a reference to column played_at_uts and
\* "NONE" for a function result, an aggregate or a bound parameter.
SqlOperands(x, affx, y, affy) ==
  IF affx = "INTEGER" /\ affy = "NONE" THEN <<x, ApplyNumeric(y)>>
  ELSE IF affx = "NONE" /\ affy = "INTEGER" THEN <<ApplyNumeric(x), y>>
  ELSE <<x, y>>

\* x < y for two non-NULL values: an INTEGER is less than any TEXT
SqlValueLess(x, y) ==
  IF x.cls = "integer" /\ y.cls = "integer" THEN x.v < y.v
  ELSE IF x.cls = "integer" THEN TRUE
  ELSE IF y.cls = "integer" THEN FALSE
  ELSE DigitsLess(x.v, y.v)

SqlLess(x, affx, y, affy) ==
  LET o == SqlOperands(x, affx, y, affy) IN SqlValueLess(o[1], o[2])

SqlGreaterEq(x, affx, y, affy) ==
  LET o == SqlOperands(x, affx, y, affy) IN ~SqlValueLess(o[1], o[2])

\* strftime('%s', 'now', '-<days> days'): TEXT
Strftime(now, days) == SqlText(NatDigits(now - days * Day))

\* the WHERE clause satisfied by every row
IsDatedAlways(u) == TRUE

\* "played_at_uts >= ?" bound to minSaneUTS
IsDated(u) == SqlGreaterEq(SqlInteger(u), "INTEGER", SqlInteger(MinSaneUTS), "NONE")

\* "played_at_uts <= ?" for "played_at_uts < ?"
IsSuspectInclusive(u) ==
  ~SqlLess(SqlInteger(MinSaneUTS), "NONE", SqlInteger(u), "INTEGER")

\* "played_at_uts < ?" bound to minSaneUTS
IsSuspect(u) == SqlLess(SqlInteger(u), "INTEGER", SqlInteger(MinSaneUTS), "NONE")

\* "played_at_uts >= strftime('%s','now', ?)"
InWindow(u, now, days) ==
  SqlGreaterEq(SqlInteger(u), "INTEGER", Strftime(now, days), "NONE")

\* "HAVING last_played < strftime('%s','now', ?)", last_played being the
\* aggregate MAX(played_at_uts)
HavingStale(lastPlayed, now, days) ==
  SqlLess(SqlInteger(lastPlayed), "NONE", Strftime(now, days), "NONE")

\* leap years before year y
LeapsBefore(y) == ((y - 1) \div 4) - ((y - 1) \div 100) + ((y - 1) \div 400)

\* days from 1970-01-01 to the first day of year y
DaysBeforeYear(y) == 365 * (y - 1970) + LeapsBefore(y) - LeapsBefore(1970)

\* CAST(strftime('%Y', played_at_uts, 'unixepoch') AS INTEGER), uts >= 0
YearOf(uts) ==
  LET d   == uts \div Day
      est == 1970 + (d \div 366)
  IN  CHOOSE y \in est..(est + 1) : DaysBeforeYear(y) <= d /\ d < DaysBeforeYear(y + 1)

\* lexicographic >= on sort keys (tuples of integers of one length)
RECURSIVE KeyGreaterEq(_, _)
KeyGreaterEq(a, b) ==
  IF a = <<>> THEN TRUE
  ELSE IF Head(a) # Head(b) THEN Head(a) > Head(b)
  ELSE KeyGreaterEq(Tail(a), Tail(b))

\* no ORDER BY: the records of S in any order
RECURSIVE OrdersAny(_)
OrdersAny(S) ==
  IF S = {} THEN {<<>>}
  ELSE UNION {{<<x>> \o q : q \in OrdersAny(S \ {x})} : x \in S}

\* ORDER BY key DESC over the records of S (field key): every order the
\* engine may return, rows with equal keys coming in any order
RECURSIVE OrdersDesc(_)
OrdersDesc(S) ==
  IF S = {} THEN {<<>>}
  ELSE UNION {{<<x>> \o q : q \in OrdersDesc(S \ {x})} :
                x \in {y \in S : \A z \in S : KeyGreaterEq(y.key, z.key)}}

\* LIMIT n (a negative n is no limit)
Limit(q, n) == IF n < 0 \/ n >= Len(q) THEN q ELSE SubSeq(q, 1, n)

\* LIMIT-free cut "WHERE rnk <= n"
TakeRnk(q, n) == IF n <= 0 THEN <<>> ELSE IF n >= Len(q) THEN q ELSE SubSeq(q, 1, n)

\* rank := 1; rank++ per scanned row
Ranked(q) == [k \in 1..Len(q) |-> ("rank" :> k) @@ q[k].g]

Unranked(q) == [k \in 1..Len(q) |-> q[k].g]

Idx(rows) == 1..Len(rows)

RECURSIVE SumPlays(_)
SumPlays(S) ==
  IF S = {} THEN 0
  ELSE LET x == CHOOSE y \in S : TRUE IN x.plays + SumPlays(S \ {x})

-----------------------------------------------------------------------------
(* The queries of cmdVerify, package digest and package recommend over the  *)
(* rows of table scrobbles.  A query whose ORDER BY leaves ties is the set  *)
(* of the row sequences it may return.                                      *)

SignatureTopCut == 20

\* digest.DefaultOptions and, of recommend.DefaultOptions, the seed query's
DefaultOptions ==
  [RecentLimit |-> 150, TopArtistsLimit |-> 25, TopTracksLimit |-> 50,
   TopAlbumsLimit |-> 40, YearlyTopArtistsPerYear |-> 10, SignatureLimit |-> 50,
   SignatureMinYears |-> 5, SeedArtistsLimit |-> 8, SeedWindow |-> 90]

\* "WHERE played_at_uts >= ?"
DatedIdx(rows) == {k \in Idx(rows) : IsDated(rows[k].played_at_uts)}

\* "WHERE played_at_uts >= ? AND played_at_uts >= strftime('%s','now', ?)"
WindowIdx(rows, now, days) ==
  {k \in DatedIdx(rows) : InWindow(rows[k].played_at_uts, now, days)}

\* "album_name IS NOT NULL AND album_name != ''"
WithAlbum(rows, sel) ==
  {k \in sel : rows[k].album_name # NULL /\ rows[k].album_name # ""}

LastPlayed(rows, sel) == SetMax({rows[k].played_at_uts : k \in sel})

\* GROUP BY artist_name: artist_name, COUNT(*) AS plays
ArtistGroups(rows, sel) ==
  {LET n == Cardinality({k \in sel : rows[k].artist_name = a})
   IN  [key |-> <<n>>, g |-> [artist |-> a, plays |-> n]] :
     a \in {rows[k].artist_name : k \in sel}}

\* GROUP BY artist_name, track_name: COUNT(*), MAX(played_at_uts)
TrackGroups(rows, sel) ==
  {LET mine == {k \in sel : rows[k].artist_name = at[1] /\ rows[k].track_name = at[2]}
   IN  [key |-> <<Cardinality(mine)>>,
        g   |-> [artist |-> at[1], track |-> at[2], plays |-> Cardinality(mine),
                 last_played_uts |-> LastPlayed(rows, mine)]] :
     at \in {<<rows[k].artist_name, rows[k].track_name>> : k \in sel}}

\* GROUP BY artist_name, album_name: COUNT(*), MAX(played_at_uts)
AlbumGroups(rows, sel) ==
  {LET mine == {k \in sel : rows[k].artist_name = aa[1] /\ rows[k].album_name = aa[2]}
   IN  [key |-> <<Cardinality(mine)>>,
        g   |-> [artist |-> aa[1], album |-> aa[2], plays |-> Cardinality(mine),
                 last_played_uts |-> LastPlayed(rows, mine)]] :
     aa \in {<<rows[k].artist_name, rows[k].album_name>> : k \in sel}}

\* cmdVerify: the numbers of its output line
cmdVerify(rows) ==
  LET dated   == {k \in Idx(rows) : IsDated(rows[k].played_at_uts)}
      suspect == {k \in Idx(rows) : IsSuspect(rows[k].played_at_uts)}
  IN  [scrobbles_total   |-> Stats(rows).count,
       scrobbles_dated   |-> Cardinality(dated),
       scrobbles_suspect |-> Cardinality(suspect),
       min_uts           |-> Stats(rows).minUTS,
       max_uts           |-> Stats(rows).maxUTS,
       dated_min_uts     |-> IF dated = {} THEN 0 ELSE SetMin({rows[k].played_at_uts : k \in dated}),
       dated_max_uts     |-> IF dated = {} THEN 0 ELSE SetMax({rows[k].played_at_uts : k \in dated})]

\* computeMeta.  Over an empty table both SUM(...) are NULL, and Scan into
\* an int64 fails ("converting NULL to int64 is unsupported").
computeMeta(rows) ==
  LET dated   == {k \in Idx(rows) : IsDated(rows[k].played_at_uts)}
      suspect == {k \in Idx(rows) : IsSuspect(rows[k].played_at_uts)}
  IN  IF rows = <<>>
      THEN [err |-> TRUE, meta |-> <<>>]
      ELSE [err |-> FALSE,
            meta |-> [scrobbles_total   |-> Len(rows),
                      scrobbles_dated   |-> Cardinality(dated),
                      scrobbles_suspect |-> Cardinality(suspect),
                      dated_min_uts |-> IF dated = {} THEN 0
                                        ELSE SetMin({rows[k].played_at_uts : k \in dated}),
                      dated_max_uts |-> IF dated = {} THEN 0
                                        ELSE SetMax({rows[k].played_at_uts : k \in dated})]]

\* ORDER BY played_at_uts DESC LIMIT ?
recentScrobbles(rows, limit) ==
  {Unranked(Limit(q, limit)) :
     q \in OrdersDesc({[key |-> <<rows[k].played_at_uts>>,
                        g   |-> [played_at_uts |-> rows[k].played_at_uts,
                                 artist |-> rows[k].artist_name,
                                 track  |-> rows[k].track_name,
                                 album  |-> IF rows[k].album_name = NULL THEN ""
                                            ELSE rows[k].album_name]] :
                         k \in DatedIdx(rows)})}

topArtists(rows, now, days, limit) ==
  {Ranked(Limit(q, limit)) : q \in OrdersDesc(ArtistGroups(rows, WindowIdx(rows, now, days)))}

topTracks(rows, now, days, limit) ==
  {Ranked(Limit(q, limit)) : q \in OrdersDesc(TrackGroups(rows, WindowIdx(rows, now, days)))}

topAlbums(rows, now, days, limit) ==
  {Ranked(Limit(q, limit)) :
     q \in OrdersDesc(AlbumGroups(rows, WithAlbum(rows, WindowIdx(rows, now, days))))}

resurfaceTracks(rows, now, days, limit) ==
  {Ranked(Limit(q, limit)) :
     q \in OrdersDesc({x \in TrackGroups(rows, DatedIdx(rows)) :
                         HavingStale(x.g.last_played_uts, now, days)})}

resurfaceAlbums(rows, now, days, limit) ==
  {Ranked(Limit(q, limit)) :
     q \in OrdersDesc({x \in AlbumGroups(rows, WithAlbum(rows, DatedIdx(rows))) :
                         HavingStale(x.g.last_played_uts, now, days)})}

\* CTE yearly: GROUP BY year, artist_name (the rows of a year are those
\* from its first second up to the first second of the next year)
YearlyGroups(rows) ==
  LET D == DatedIdx(rows)
  IN  {[year |-> ya[1], artist |-> ya[2],
        plays |-> LET lo == DaysBeforeYear(ya[1]) * Day
                      hi == DaysBeforeYear(ya[1] + 1) * Day
                  IN  Cardinality({k \in D :
                                     /\ rows[k].artist_name = ya[2]
                                     /\ lo <= rows[k].played_at_uts
                                     /\ rows[k].played_at_uts < hi})] :
         ya \in {<<YearOf(rows[k].played_at_uts), rows[k].artist_name>> : k \in D}}

\* CTE ranked cut at rnk <= cut, in "year ASC, rnk ASC" order:
\* ROW_NUMBER() OVER (PARTITION BY year ORDER BY plays DESC)
RECURSIVE RankedByYear(_, _, _)
RankedByYear(G, years, cut) ==
  IF years = {} THEN {<<>>}
  ELSE LET y == SetMin(years)
           part == {[key |-> <<x.plays>>, g |-> x] : x \in {z \in G : z.year = y}}
       IN  {Ranked(TakeRnk(q, cut)) \o rest :
              q \in OrdersDesc(part), rest \in RankedByYear(G, years \ {y}, cut)}

yearlyTopArtists(rows, perYear) ==
  LET G == YearlyGroups(rows)
  IN  RankedByYear(G, {x.year : x \in G}, perYear)

\* signatureArtists with the per-year cut taken from
\* Options.YearlyTopArtistsPerYear instead of the fixed 20
signatureArtistsYearlyCut(rows, minYears, limit) ==
  LET G == YearlyGroups(rows) IN
  UNION {
    LET T   == {top[k] : k \in 1..Len(top)}
        Of(a) == {x \in T : x.artist = a}
        agg == {[key |-> <<Cardinality({x.year : x \in Of(a)}), SumPlays(Of(a))>>,
                 g   |-> [artist |-> a,
                          years_in_top |-> Cardinality({x.year : x \in Of(a)}),
                          first_year |-> SetMin({x.year : x \in Of(a)}),
                          last_year  |-> SetMax({x.year : x \in Of(a)}),
                          plays_in_top_years |-> SumPlays(Of(a))]] :
                  a \in {x.artist : x \in T}}
    IN  {Ranked(Limit(q, limit)) :
           q \in OrdersDesc({x \in agg : x.g.years_in_top >= minYears})} :
    top \in RankedByYear(G, {x.year : x \in G}, DefaultOptions.YearlyTopArtistsPerYear)}

signatureArtists(rows, minYears, limit) ==
  LET G == YearlyGroups(rows) IN
  UNION {
    LET T   == {top[k] : k \in 1..Len(top)}
        Of(a) == {x \in T : x.artist = a}
        agg == {[key |-> <<Cardinality({x.year : x \in Of(a)}), SumPlays(Of(a))>>,
                 g   |-> [artist |-> a,
                          years_in_top |-> Cardinality({x.year : x \in Of(a)}),
                          first_year |-> SetMin({x.year : x \in Of(a)}),
                          last_year  |-> SetMax({x.year : x \in Of(a)}),
                          plays_in_top_years |-> SumPlays(Of(a))]] :
                  a \in {x.artist : x \in T}}
    IN  {Ranked(Limit(q, limit)) :
           q \in OrdersDesc({x \in agg : x.g.years_in_top >= minYears})} :
    top \in RankedByYear(G, {x.year : x \in G}, SignatureTopCut)}

\* recommend.seedArtists
seedArtists(rows, now, days, limit) ==
  {Unranked(Limit(q, limit)) : q \in OrdersDesc(ArtistGroups(rows, WindowIdx(rows, now, days)))}

\* stmtStats of recommend.Build: COUNT(*), COALESCE(MAX(played_at_uts), 0)
localStats(rows, artist, track) ==
  LET mine == {k \in DatedIdx(rows) :
                 rows[k].artist_name = artist /\ rows[k].track_name = track}
  IN  [local_plays |-> Cardinality(mine),
       local_last_played_uts |-> IF mine = {} THEN 0 ELSE LastPlayed(rows, mine)]

-----------------------------------------------------------------------------
(* Specification SpecQuery: one command at a time.  An ingesting command    *)
(* passes one event through the loop body of cmdBackfill / cmdSync and the  *)
(* flush that ends the page; the others are cmdVerify and the queries of    *)
(* digest.Build and recommend.Build, run against the table.                 *)

\* 2026-11-08T00:00:00Z
ClockBase == MinSaneUTS + 9808 * Day

QTrack(ts, artist, name, album) == Track(TRUE, NatDigits(ts), artist, name, album)

QTracks ==
  {QTrack(ClockBase - 5 * Day,   "a", "x", "lp"),
   QTrack(ClockBase - 20 * Day,  "b", "x", "lp"),
   QTrack(ClockBase - 180 * Day, "b", "y", "lp"),
   QTrack(ClockBase - 200 * Day, "a", "x", "lp"),
   QTrack(ClockBase - 400 * Day, "c", "z", ""),
   QTrack(MinSaneUTS,            "c", "z", ""),
   QTrack(MinSaneUTS - 1,        "c", "z", "lp"),
   QTrack(100,                   "b", "x", "lp")}

NoOut == [kind |-> "none", args |-> <<>>, err |-> FALSE, out |-> <<>>]

\* what a query may return: args are its parameters after (ctx, db)
QueryResults(kind, args, rows, now) ==
  CASE kind = "verify"          -> {cmdVerify(rows)}
    [] kind = "recent"          -> recentScrobbles(rows, args[1])
    [] kind = "topArtists"      -> topArtists(rows, now, args[1], args[2])
    [] kind = "topTracks"       -> topTracks(rows, now, args[1], args[2])
    [] kind = "topAlbums"       -> topAlbums(rows, now, args[1], args[2])
    [] kind = "resurfaceTracks" -> resurfaceTracks(rows, now, args[1], args[2])
    [] kind = "resurfaceAlbums" -> resurfaceAlbums(rows, now, args[1], args[2])
    [] kind = "yearly"          -> yearlyTopArtists(rows, args[1])
    [] kind = "signature"       -> signatureArtists(rows, args[1], args[2])
    [] kind = "seeds"           -> seedArtists(rows, now, args[1], args[2])
    [] kind = "localStats"      -> {localStats(rows, args[1], args[2])}

InitQuery ==
  /\ IdleMain /\ IdleRetry /\ IdleHash /\ IdleIns /\ IdleLater
  /\ qRows = <<>>
  /\ qRaw = <<>>
  /\ qNow = ClockBase
  /\ qOut = NoOut

\* store.Open with os.O_TRUNC for os.O_APPEND
OpenStoreTruncate(rows, raw) == [rows |-> rows, raw |-> <<>>]

\* store.Open on an existing data directory, run by every command: the
\* schema is "CREATE TABLE IF NOT EXISTS" and "CREATE INDEX IF NOT EXISTS",
\* the raw log is opened with os.O_CREATE|os.O_APPEND|os.O_WRONLY
OpenStore(rows, raw) == [rows |-> rows, raw |-> raw]

\* InsertScrobble(t), AppendRaw(t) if it was inserted, Flush
IngestEvent ==
  /\ qOut = NoOut
  /\ \E t \in QTracks :
       /\ Len(qRows) < MaxRows \/ HasKey(qRows, KeyOf(t))
       /\ LET s   == OpenStore(qRows, qRaw)
              res == InsertScrobble(s.rows, t)
          IN  /\ qRows' = res.rows
              /\ qRaw' = IF ShouldAppendRaw(res) THEN Append(s.raw, t) ELSE s.raw
              /\ qOut' = [kind |-> "ingest", args |-> <<t>>, err |-> res.err,
                          out |-> [Inserted |-> res.Inserted, Ignored |-> res.Ignored]]
  /\ UNCHANGED <<qNow, mainVars, retryVars, hashVars, insVars, laterVars>>

Query(kind, argsSet) ==
  /\ qOut = NoOut
  /\ \E args \in argsSet :
       \E r \in QueryResults(kind, args, qRows, qNow) :
         qOut' = [kind |-> kind, args |-> args, err |-> FALSE, out |-> r]
  /\ qRows' = OpenStore(qRows, qRaw).rows
  /\ qRaw' = OpenStore(qRows, qRaw).raw
  /\ UNCHANGED <<qNow, mainVars, retryVars, hashVars, insVars, laterVars>>

Verify == Query("verify", {<<>>})

Meta ==
  /\ qOut = NoOut
  /\ LET m == computeMeta(qRows)
     IN  qOut' = [kind |-> "meta", args |-> <<>>, err |-> m.err, out |-> m.meta]
  /\ qRows' = OpenStore(qRows, qRaw).rows
  /\ qRaw' = OpenStore(qRows, qRaw).raw
  /\ UNCHANGED <<qNow, mainVars, retryVars, hashVars, insVars, laterVars>>

Recent == Query("recent", {<<1>>, <<DefaultOptions.RecentLimit>>})

TopArtists ==
  Query("topArtists", {<<d, n>> : d \in {30, 365}, n \in {1, DefaultOptions.TopArtistsLimit}})

TopTracks == Query("topTracks", {<<30, n>> : n \in {1, DefaultOptions.TopTracksLimit}})

TopAlbums == Query("topAlbums", {<<30, n>> : n \in {1, DefaultOptions.TopAlbumsLimit}})

ResurfaceTracks ==
  Query("resurfaceTracks", {<<180, n>> : n \in {1, DefaultOptions.TopTracksLimit}})

ResurfaceAlbums ==
  Query("resurfaceAlbums", {<<180, n>> : n \in {1, DefaultOptions.TopAlbumsLimit}})

YearlyTopArtists == Query("yearly", {<<1>>, <<DefaultOptions.YearlyTopArtistsPerYear>>})

SignatureArtists ==
  Query("signature", {<<y, n>> : y \in {1, DefaultOptions.SignatureMinYears},
                                 n \in {1, DefaultOptions.SignatureLimit}})

SeedArtists ==
  Query("seeds", {<<DefaultOptions.SeedWindow, n>> : n \in {1, DefaultOptions.SeedArtistsLimit}})

LocalStats == Query("localStats", {<<t.artist, t.name>> : t \in QTracks})

\* the command has printed its output and returns; the process exits
CommandExit ==
  /\ qOut # NoOut
  /\ qOut' = NoOut
  /\ UNCHANGED <<qRows, qRaw, qNow, mainVars, retryVars, hashVars, insVars, laterVars>>

NextQuery ==
  \/ IngestEvent
  \/ Verify
  \/ Meta
  \/ Recent
  \/ TopArtists
  \/ TopTracks
  \/ TopAlbums
  \/ ResurfaceTracks
  \/ ResurfaceAlbums
  \/ YearlyTopArtists
  \/ SignatureArtists
  \/ SeedArtists
  \/ LocalStats
  \/ CommandExit

SpecQuery == InitQuery /\ [][NextQuery]_vars

-----------------------------------------------------------------------------
(* Properties of the table under ingestion and of the local queries *)

\* C11: no step changes or removes a stored row: the rows, in rowid order,
\* stay a prefix of the table after every step (an insert with a key that
\* is already stored, and every verify / digest / recommend query,
\* included), and MAX(played_at_uts), the watermark of sync, never goes down.
C11_EventsImmutable ==
  [][/\ Len(qRows') >= Len(qRows)
     /\ \A k \in Idx(qRows) : qRows'[k] = qRows[k]
     /\ MaxPlayedAtUTS(qRows') >= MaxPlayedAtUTS(qRows)]_vars

\* an event whose key is already stored was passed to InsertScrobble while
\* the table held another row after it
C11_Witness ==
  /\ qOut.kind = "ingest"
  /\ qOut.out.Ignored = 1
  /\ Len(qRows) >= 2
  /\ KeyOf(qOut.args[1]) = qRows[1].source_hash

\* the table without its rows below the sane-epoch threshold
Purged(rows) == SelectSeq(rows, LAMBDA r : r.played_at_uts >= MinSaneUTS)

AnalyticKinds ==
  {"recent", "topArtists", "topTracks", "topAlbums", "resurfaceTracks",
   "resurfaceAlbums", "yearly", "signature", "seeds", "localStats"}

\* C12: an ingested event with a timestamp below 946684800 gets its row and
\* its raw envelope like any other (rows and envelopes correspond one to
\* one); what a digest section (recent, top, resurface, yearly, signature),
\* the seed query or the local-play query returns is a result of the same
\* query over the table without its suspect rows, and no recent entry and
\* no last-played value is below the threshold.
C12_SuspectExcluded ==
  /\ Len(qRaw) = Len(qRows)
  /\ \A k \in Idx(qRows) : KeyOf(qRaw[k]) = qRows[k].source_hash
  /\ (qOut.kind = "ingest" /\ TsOf(qOut.args[1]) < MinSaneUTS) =>
        /\ ~qOut.err
        /\ qOut.out.Inserted + qOut.out.Ignored = 1
        /\ \E k \in Idx(qRows) :
              /\ qRows[k].source_hash = KeyOf(qOut.args[1])
              /\ qRows[k].played_at_uts = TsOf(qOut.args[1])
              /\ qRaw[k] = qOut.args[1]
  /\ qOut.kind \in AnalyticKinds =>
        qOut.out \in QueryResults(qOut.kind, qOut.args, Purged(qRows), qNow)
  /\ qOut.kind = "recent" =>
        \A i \in 1..Len(qOut.out) : qOut.out[i].played_at_uts >= MinSaneUTS
  /\ qOut.kind \in {"topTracks", "topAlbums", "resurfaceTracks", "resurfaceAlbums"} =>
        \A i \in 1..Len(qOut.out) : qOut.out[i].last_played_uts >= MinSaneUTS
  /\ qOut.kind = "localStats" =>
        qOut.out.local_plays =
          Cardinality({k \in Idx(qRows) : /\ qRows[k].played_at_uts >= MinSaneUTS
                                          /\ qRows[k].artist_name = qOut.args[1]
                                          /\ qRows[k].track_name = qOut.args[2]})

\* the all-time resurface list credits artist b's track x with one play
\* while the table also holds a play of it dated 1970
C12_Witness ==
  /\ qOut.kind = "resurfaceTracks"
  /\ \E k \in Idx(qRows) : qRows[k].played_at_uts = 100 /\ qRows[k].artist_name = "b"
  /\ \E i \in 1..Len(qOut.out) :
        /\ qOut.out[i].artist = "b" /\ qOut.out[i].track = "x"
        /\ qOut.out[i].plays = 1

\* C13: the counts printed by verify and the counts of the digest meta
\* (when computeMeta returns them) satisfy dated + suspect = total, total
\* being the number of rows.
C13_CountsAddUp ==
  /\ qOut.kind = "verify" =>
        /\ qOut.out.scrobbles_dated + qOut.out.scrobbles_suspect = qOut.out.scrobbles_total
        /\ qOut.out.scrobbles_total = Len(qRows)
  /\ (qOut.kind = "meta" /\ ~qOut.err) =>
        /\ qOut.out.scrobbles_dated + qOut.out.scrobbles_suspect = qOut.out.scrobbles_total
        /\ qOut.out.scrobbles_total = Len(qRows)

\* the meta of a table holding a row exactly at the threshold, one below it
\* and one above
C13_Witness ==
  /\ qOut.kind = "meta" /\ ~qOut.err
  /\ qOut.out.scrobbles_suspect = 1
  /\ qOut.out.scrobbles_dated = 2
  /\ qOut.out.dated_min_uts = MinSaneUTS

\* dated rows of artist a played within the last `days` days
WindowPlays(a, days) ==
  Cardinality({k \in Idx(qRows) : /\ qRows[k].artist_name = a
                                  /\ qRows[k].played_at_uts >= MinSaneUTS
                                  /\ qRows[k].played_at_uts >= qNow - days * Day})

\* C14: a top-K artist list for a window has at most K entries, plays
\* never increase along it, each entry's plays is the number of dated rows
\* of that artist inside the window and is at least 1, no artist is listed
\* twice, and ranks are 1, 2, 3, ... in list order.
C14_TopArtistsRanked ==
  qOut.kind = "topArtists" =>
    LET L == qOut.out
        days == qOut.args[1]
        K == qOut.args[2]
    IN  /\ Len(L) <= K
        /\ \A i, j \in 1..Len(L) : i < j =>
              (L[i].plays >= L[j].plays /\ L[i].artist # L[j].artist)
        /\ \A i \in 1..Len(L) :
              /\ L[i].plays = WindowPlays(L[i].artist, days)
              /\ L[i].plays >= 1
              /\ L[i].rank = i

\* the 365-day list over three rows, all inside the window: one artist
\* with two plays first, then another with one
C14_Witness ==
  /\ qOut.kind = "topArtists" /\ qOut.args = <<365, DefaultOptions.TopArtistsLimit>>
  /\ Len(qOut.out) = 2
  /\ qOut.out[1].plays = 2 /\ qOut.out[2].plays = 1
  /\ Len(qRows) = 3

-----------------------------------------------------------------------------
(* recommend.Build: from the aggregated candidate artists to Output.Tracks *)

\* sort.SliceStable(s, less), less[i, j] comparing the elements at indexes
\* i and j of s, for a less that is a strict weak ordering: the element at
\* index k goes after the elements that are less than it and after the
\* equivalent ones that came before it
SortSliceStable(s, less) ==
  LET pos(k) == 1 + Cardinality({m \in 1..Len(s) :
                       /\ m # k
                       /\ \/ less[m, k]
                          \/ ~less[k, m] /\ m < k})
  IN  [i \in 1..Len(s) |-> s[CHOOSE k \in 1..Len(s) : pos(k) = i]]

\* the orders "for k, v := range artistsAgg" can visit the entries in
MapOrders(agg) ==
  {[i \in 1..Len(agg) |-> agg[f[i]]] :
     f \in {g \in [1..Len(agg) -> 1..Len(agg)] :
              \A i, j \in 1..Len(agg) : i # j => g[i] # g[j]}}

\* func(i, j) { return artistCands[i].Score > artistCands[j].Score }
ArtistLess(x, y) == x.Score > y.Score

\* the comparator of the final sort with the scores compared the other way
TrackLessAscending(opt, x, y) ==
  LET iUn == x.LocalPlays = 0
      jUn == y.LocalPlays = 0
  IN  IF opt.PreferUnplayed /\ iUn # jUn THEN iUn
      ELSE IF x.Score = y.Score THEN x.LocalLastPlayedUTS < y.LocalLastPlayedUTS
      ELSE x.Score < y.Score

\* the comparator of the final sort: prefer unplayed, then score
TrackLess(opt, x, y) ==
  LET iUn == x.LocalPlays = 0
      jUn == y.LocalPlays = 0
  IN  IF opt.PreferUnplayed /\ iUn # jUn THEN iUn
      ELSE IF x.Score = y.Score THEN x.LocalLastPlayedUTS < y.LocalLastPlayedUTS
      ELSE x.Score > y.Score

\* artistCands: sorted by score, cut to SimilarArtistsLimit
rankArtists(cands, limit) ==
  LET sorted == SortSliceStable(cands, [i, j \in 1..Len(cands) |->
                                         ArtistLess(cands[i], cands[j])])
  IN  IF Len(sorted) > limit THEN SubSeq(sorted, 1, limit) ELSE sorted

\* the scrobbles table the candidates are looked up in: a play of a/x five
\* days ago, a play of b/y 180 days ago and a play of b/x dated 1970
RkRows ==
  LET r1 == InsertScrobble(<<>>, QTrack(ClockBase - 5 * Day, "a", "x", "lp")).rows
      r2 == InsertScrobble(r1, QTrack(ClockBase - 180 * Day, "b", "y", "lp")).rows
  IN  InsertScrobble(r2, QTrack(100, "b", "x", "lp")).rows

\* artist.gettoptracks as answered by the service (names already trimmed)
RkTopTracks(artist) ==
  CASE artist = "a" -> <<"x", "w">>
    [] artist = "b" -> <<"y", "x">>
    [] artist = "c" -> <<"z", "", "z">>
    [] artist = "d" -> <<"v">>

RkArtists == {"a", "b", "c"}

\* the tracks of one candidate artist: empty names and names already seen
\* are skipped, each track gets the artist's score and its local stats
RECURSIVE TracksOfArtist(_, _, _, _, _)
TracksOfArtist(rows, a, top, k, seen) ==
  IF k > Len(top) THEN <<>>
  ELSE IF top[k] = "" \/ top[k] \in seen THEN TracksOfArtist(rows, a, top, k + 1, seen)
  ELSE LET st == localStats(rows, a.Artist, top[k])
       IN  <<[Artist |-> a.Artist, Track |-> top[k], Score |-> a.Score,
              LocalPlays |-> st.local_plays,
              LocalLastPlayedUTS |-> st.local_last_played_uts]>>
           \o TracksOfArtist(rows, a, top, k + 1, seen \cup {top[k]})

\* the tracks of one artist that are appended when room more tracks reach
\* the limit: "if len(tracks) >= opt.CandidateTracksLimit { break }" comes
\* after the append, so the first track is appended whatever the limit is
AppendUpToCap(ts, room) ==
  LET n == IF room < 1 THEN 1 ELSE room
  IN  IF Len(ts) > n THEN SubSeq(ts, 1, n) ELSE ts

\* the loop over artistCands, left after the artist with whose tracks
\* CandidateTracksLimit is reached
RECURSIVE expandTracks(_, _, _, _)
expandTracks(rows, artistCands, k, limit) ==
  IF k > Len(artistCands) THEN <<>>
  ELSE LET ts == AppendUpToCap(TracksOfArtist(rows, artistCands[k],
                                 RkTopTracks(artistCands[k].Artist), 1, {}), limit)
       IN  IF Len(ts) >= limit THEN ts
           ELSE ts \o expandTracks(rows, artistCands, k + 1, limit - Len(ts))

\* rankTracks without the IncludePlayedTracks filter
rankTracksKeepPlayed(cands, opt) ==
  LET sorted == SortSliceStable(cands, [i, j \in 1..Len(cands) |->
                                         TrackLess(opt, cands[i], cands[j])])
  IN  [i \in 1..Len(sorted) |-> ("Rank" :> i) @@ sorted[i]]

\* the final sort, the IncludePlayedTracks filter and the ranks
rankTracks(cands, opt) ==
  LET sorted == SortSliceStable(cands, [i, j \in 1..Len(cands) |->
                                         TrackLess(opt, cands[i], cands[j])])
      kept   == IF opt.IncludePlayedTracks THEN sorted
                ELSE SelectSeq(sorted, LAMBDA t : t.LocalPlays = 0)
  IN  [i \in 1..Len(kept) |-> ("Rank" :> i) @@ kept[i]]

BuildTracks(rows, cands, opt) ==
  rankTracks(expandTracks(rows, rankArtists(cands, opt.SimilarArtistsLimit), 1,
                          opt.CandidateTracksLimit), opt)

RkOptions ==
  {[PreferUnplayed |-> pu, IncludePlayedTracks |-> ip,
    SimilarArtistsLimit |-> l[1], CandidateTracksLimit |-> l[2]] :
      pu \in BOOLEAN, ip \in BOOLEAN, l \in {<<25, 120>>, <<2, 3>>}}

\* every order the map of candidates can be iterated in, with every score
RkCandLists(scores) ==
  {q \in [1..Cardinality(RkArtists) -> [Artist : RkArtists, Score : scores]] :
      \A i, j \in DOMAIN q : i # j => q[i].Artist # q[j].Artist}

InitRank ==
  /\ IdleMain /\ IdleRetry /\ IdleHash /\ IdleIns /\ IdleQuery /\ IdleClass /\ IdleRec
  /\ IdleCancel
  /\ rkArt \in RkCandLists(0..MaxScore)
  /\ rkOpt \in RkOptions
  /\ rkPrev = <<>>
  /\ rkOut = <<>>
  /\ rkRaised = ""
  /\ rkPhase = "first"

notRank == <<mainVars, retryVars, hashVars, insVars, queryVars, classVars, recVars,
            cancelVars>>

\* one run of Build over the candidates
BuildRanking ==
  /\ rkPhase \in {"first", "second"}
  /\ rkOut' = BuildTracks(RkRows, rkArt, rkOpt)
  /\ rkPhase' = IF rkPhase = "first" THEN "ranked" ELSE "reranked"
  /\ UNCHANGED <<rkArt, rkOpt, rkPrev, rkRaised, notRank>>

\* the service reports higher match values for one candidate artist; the
\* next run iterates the map in any order
RaiseScore ==
  /\ rkPhase = "ranked"
  /\ \E a \in RkArtists, d \in 1..MaxRaise :
       LET raised == [i \in DOMAIN rkArt |->
                        IF rkArt[i].Artist = a
                        THEN [rkArt[i] EXCEPT !.Score = @ + d]
                        ELSE rkArt[i]]
       IN  /\ rkArt' \in MapOrders(raised)
           /\ rkRaised' = a
  /\ rkPrev' = rkOut
  /\ rkPhase' = "second"
  /\ UNCHANGED <<rkOpt, rkOut, notRank>>

NextRank == BuildRanking \/ RaiseScore

SpecRank == InitRank /\ [][NextRank]_vars

\* positions in a track list of the tracks of the raised artist / of the others
RkRaisedAt(L) == {i \in 1..Len(L) : L[i].Artist = rkRaised}

RkOtherAt(L)  == {i \in 1..Len(L) : L[i].Artist # rkRaised}

\* C16: when one candidate artist's aggregate score is raised and the
\* ranking is built again (local plays and last-played values the same, the
\* other artists' scores the same), a track of that artist that was ranked
\* before a track of another artist is still ranked before it, for every
\* pair of tracks present in both rankings.
C16_RaiseNeverWorsens ==
  rkPhase = "reranked" =>
    \A i \in RkRaisedAt(rkPrev), j \in RkOtherAt(rkPrev) :
      \A i2 \in RkRaisedAt(rkOut), j2 \in RkOtherAt(rkOut) :
        (/\ rkOut[i2].Track = rkPrev[i].Track
         /\ rkOut[j2].Artist = rkPrev[j].Artist /\ rkOut[j2].Track = rkPrev[j].Track
         /\ rkPrev[i].Rank < rkPrev[j].Rank)
        => rkOut[i2].Rank < rkOut[j2].Rank

\* a track of the raised artist was ranked after a track of another artist
\* and is ranked before it after the raise
C16_Witness ==
  /\ rkPhase = "reranked"
  /\ \E i \in RkRaisedAt(rkPrev), j \in RkOtherAt(rkPrev) :
       \E i2 \in RkRaisedAt(rkOut), j2 \in RkOtherAt(rkOut) :
         /\ rkOut[i2].Track = rkPrev[i].Track
         /\ rkOut[j2].Artist = rkPrev[j].Artist /\ rkOut[j2].Track = rkPrev[j].Track
         /\ rkPrev[i].Rank > rkPrev[j].Rank
         /\ rkOut[i2].Rank < rkOut[j2].Rank
         /\ rkOut[i2].Score > rkPrev[i].Score

-----------------------------------------------------------------------------
(* One remote call: doGet, the client method, and IsRetryable on its error *)

\* what a request can meet: a failure of http.Client.Do / io.ReadAll, or a
\* response with a status, a body that json.Unmarshal accepts or not, and
\* the "error" field of the body (0 when absent)
Responses ==
  {[transport |-> FALSE, status |-> 0, decodes |-> FALSE, error |-> 0]} \cup
  [transport : {TRUE},
   status : {199, 200, 299, 300} \cup (400..MaxStatus),
   decodes : BOOLEAN,
   error : 0..MaxApiCode]

\* Client.doGet
doGet(resp) ==
  IF ~resp.transport THEN NetError
  ELSE IF resp.status < 200 \/ resp.status >= 300 THEN HTTPError(resp.status)
  ELSE IF ~resp.decodes THEN DecodeError
  ELSE Ok

\* GetRecentTracksPage / GetSimilarArtists / GetArtistTopTracks: the error
\* of doGet, or APIError when the body carries an error code
ClientCall(resp) ==
  LET err == doGet(resp)
  IN  IF err # Ok THEN err
      ELSE IF resp.error # 0 THEN APIError(resp.error)
      ELSE Ok

InitClassify ==
  /\ IdleMain /\ IdleRetry /\ IdleHash /\ IdleIns /\ IdleQuery /\ IdleRank /\ IdleRec
  /\ IdleCancel
  /\ clResp \in Responses
  /\ clErr = <<>>
  /\ clRetry = FALSE
  /\ clPhase = "sent"

notClass == <<mainVars, retryVars, hashVars, insVars, queryVars, rankVars, recVars,
             cancelVars>>

\* the client method returns
CallReturns ==
  /\ clPhase = "sent"
  /\ clErr' = ClientCall(clResp)
  /\ clPhase' = "returned"
  /\ UNCHANGED <<clResp, clRetry, notClass>>

\* the retry wrapper asks whether the error is retryable
Classify ==
  /\ clPhase = "returned"
  /\ clErr # Ok
  /\ clRetry' = IsRetryable(clErr)
  /\ clPhase' = "classified"
  /\ UNCHANGED <<clResp, clErr, notClass>>

NextClassify == CallReturns \/ Classify

SpecClassify == InitClassify /\ [][NextClassify]_vars

\* C17: IsRetryable is true for an HTTPError with status >= 500 or status
\* 429 and for an APIError with code 29, and false for every other error:
\* an HTTPError with another status, an APIError with another code, a decode
\* error and a connection-level error; in terms of the response, true
\* exactly when the status is >= 500 or 429, or the status is 2xx, the body
\* decodes and its error code is 29.
C17_RetryableExactly ==
  clPhase = "classified" =>
    /\ clErr.kind = "http" => (clRetry <=> (clErr.code >= 500 \/ clErr.code = 429))
    /\ clErr.kind = "api" => (clRetry <=> clErr.code = 29)
    /\ clErr.kind \in {"decode", "net"} => ~clRetry
    /\ clErr.kind \in {"http", "api", "decode", "net"}
    /\ clRetry <=>
         /\ clResp.transport
         /\ \/ clResp.status >= 500
            \/ clResp.status = 429
            \/ /\ clResp.status >= 200 /\ clResp.status < 300
               /\ clResp.decodes /\ clResp.error = 29

\* a response with status 429 was classified retryable
C17_Witness ==
  /\ clPhase = "classified"
  /\ clErr = HTTPError(429)
  /\ clRetry

-----------------------------------------------------------------------------
(* A recommend run, call by call: cmdRecommend and recommend.Build *)

\* recommend.DefaultOptions (MinLastPlayedWindow is not read by Build)
RecommendOptions ==
  [SeedArtistsLimit |-> 8, SeedWindow |-> 90, SimilarPerSeedArtist |-> 15,
   SimilarArtistsLimit |-> 25, TopTracksPerArtist |-> 6,
   CandidateTracksLimit |-> 120, ExcludeSeedArtists |-> TRUE,
   IncludePlayedTracks |-> TRUE, PreferUnplayed |-> TRUE]

\* strings.ToLower / strings.TrimSpace on the names the service uses here
ToLower(str) == IF str = "D" THEN "d" ELSE str

TrimSpace(str) == IF str = " d" THEN "d" ELSE str

\* artist.getsimilar as answered by the service: Name and Match (in units
\* the scores are summed in)
GetSimilarArtists(artist) ==
  CASE artist = "a" -> <<[Name |-> "b", Match |-> 2], [Name |-> "D", Match |-> 1],
                         [Name |-> "", Match |-> 1]>>
    [] artist = "b" -> <<[Name |-> " d", Match |-> 1], [Name |-> "c", Match |-> 2]>>
    [] OTHER        -> <<[Name |-> "d", Match |-> 1]>>

\* answers of the service to the successive calls of one wrapper of
\* recommend: success at once, success after one retry, a fatal error,
\* retryable errors throughout
RecScripts ==
  {<<>>, <<HTTPError(500)>>, <<APIError(6)>>,
   [k \in 1..RecMaxAttempts |-> APIError(29)]}

\* getSimilarArtistsWithRetry / getArtistTopTracksWithRetry
getWithRetry(script) == RetryRun(RetryStart, script, RecMaxAttempts, RecMaxBackoff)

NoDoc == [emitted |-> FALSE, Seeds |-> <<>>, Artists |-> <<>>, Tracks |-> <<>>]

\* AddSimilar with "cur.score = m" for "cur.score += m"
RECURSIVE AddSimilarLastMatch(_, _, _, _, _)
AddSimilarLastMatch(agg, seedSet, seed, sim, k) ==
  IF k > Len(sim) THEN agg
  ELSE
    LET name == TrimSpace(sim[k].Name)
        key  == ToLower(name)
    IN  IF name = "" \/ (rkOpt.ExcludeSeedArtists /\ key \in seedSet)
        THEN AddSimilarLastMatch(agg, seedSet, seed, sim, k + 1)
        ELSE
          LET at == {i \in 1..Len(agg) : agg[i].Artist = key}
              next == IF at = {}
                      THEN Append(agg, [Artist |-> key, Score |-> sim[k].Match,
                                        From |-> {seed}])
                      ELSE [i \in 1..Len(agg) |->
                              IF i \in at
                              THEN [agg[i] EXCEPT !.Score = sim[k].Match,
                                                  !.From = @ \cup {seed}]
                              ELSE agg[i]]
          IN  AddSimilarLastMatch(next, seedSet, seed, sim, k + 1)

\* the body of "for _, a := range sim" for sim[k..]
RECURSIVE AddSimilar(_, _, _, _, _)
AddSimilar(agg, seedSet, seed, sim, k) ==
  IF k > Len(sim) THEN agg
  ELSE
    LET name == TrimSpace(sim[k].Name)
        key  == ToLower(name)
    IN  IF name = "" \/ (rkOpt.ExcludeSeedArtists /\ key \in seedSet)
        THEN AddSimilar(agg, seedSet, seed, sim, k + 1)
        ELSE
          LET at == {i \in 1..Len(agg) : agg[i].Artist = key}
              next == IF at = {}
                      THEN Append(agg, [Artist |-> key, Score |-> sim[k].Match,
                                        From |-> {seed}])
                      ELSE [i \in 1..Len(agg) |->
                              IF i \in at
                              THEN [agg[i] EXCEPT !.Score = @ + sim[k].Match,
                                                  !.From = @ \cup {seed}]
                              ELSE agg[i]]
          IN  AddSimilar(next, seedSet, seed, sim, k + 1)

\* dated scrobbles the service may hold
AbortTracks ==
  {QTrack(ClockBase - 5 * Day,   "a", "x", "lp"),
   QTrack(ClockBase - 20 * Day,  "b", "y", ""),
   QTrack(ClockBase - 200 * Day, "c", "z", "")}

InitAbort ==
  /\ IdleRetry /\ IdleHash /\ IdleIns /\ IdleQuery
  /\ IdleClass /\ IdleRec /\ IdleCancel
  /\ rkArt = <<>> /\ rkPrev = <<>> /\ rkOut = <<>> /\ rkRaised = "" /\ rkPhase = "first"
  /\ rkOpt = RecommendOptions
  /\ feed \in DistinctSeqs(AbortTracks, MaxFeed)
  /\ nowPlaying = <<>>
  /\ store = <<>> /\ rawFile = <<>> /\ rawBuf = <<>>
  /\ pc = "idle" /\ cmd = "none" /\ status = "none"
  /\ page = 1 /\ totalPages = -1 /\ maxSeen = 0 /\ stop = FALSE
  /\ tracks = <<>> /\ idx = 1 /\ inserted = 0 /\ ignored = 0
  /\ fetched = <<>> /\ requested = {} /\ reportedTP = -1 /\ emptyAt = 0
  /\ lastRes = NoRes /\ lastTrack = NoTrack
  /\ rawStart = 0 /\ feedSame = TRUE
  /\ prev = "none"
  /\ runs = 0

notRec == <<retryVars, hashVars, insVars, queryVars, rankVars, classVars, cancelVars>>

\* what a step of a recommend run leaves alone outside its own locals
RecFrame ==
  UNCHANGED <<remoteVars, store, cmd, page, totalPages, maxSeen, stop, tracks, idx,
              inserted, ignored, obsVars, notRec>>

\* run(): store.Open, then cmdRecommend
StartRecommend ==
  /\ pc = "idle"
  /\ runs < MaxRuns
  /\ runs' = runs + 1
  /\ prev' = IF ~feedSame THEN "none"
             ELSE IF status \in {"error", "killed"} THEN "aborted"
             ELSE IF status = "ok" THEN cmd
             ELSE "none"
  /\ feedSame' = TRUE
  /\ cmd' = "recommend"
  /\ status' = "running"
  /\ pc' = "seeds"
  /\ rawBuf' = <<>>
  /\ page' = 1 /\ totalPages' = -1 /\ maxSeen' = 0 /\ stop' = FALSE
  /\ tracks' = <<>> /\ idx' = 1 /\ inserted' = 0 /\ ignored' = 0
  /\ fetched' = <<>> /\ requested' = {} /\ reportedTP' = -1 /\ emptyAt' = 0
  /\ lastRes' = NoRes /\ lastTrack' = NoTrack
  /\ rawStart' = Len(rawFile)
  /\ recSeeds' = <<>> /\ recAgg' = <<>> /\ recCands' = <<>> /\ recK' = 1
  /\ recTracks' = <<>> /\ recCalls' = <<>> /\ recErr' = NoErr /\ recOut' = NoDoc
  /\ UNCHANGED <<remoteVars, diskVars, notRec>>

\* seeds, err := seedArtists(...)
RecSeeds ==
  /\ pc = "seeds" /\ cmd = "recommend"
  /\ \E sd \in seedArtists(store, ClockBase, rkOpt.SeedWindow,
                           rkOpt.SeedArtistsLimit) :
       /\ recSeeds' = sd
       /\ pc' = IF sd = <<>> THEN "rank" ELSE "similar"
  /\ recK' = 1
  /\ UNCHANGED <<recAgg, recCands, recTracks, recCalls, recErr, recOut,
                 status, rawFile, rawBuf>>
  /\ RecFrame

\* one pass of "for _, seed := range seeds"
RecSimilar ==
  /\ pc = "similar" /\ cmd = "recommend"
  /\ LET seed == recSeeds[recK].artist
         seedSet == {ToLower(recSeeds[i].artist) : i \in 1..Len(recSeeds)}
     IN  /\ recCalls' = Append(recCalls, <<"artist.getsimilar", seed>>)
         /\ \E script \in RecScripts :
              LET r == getWithRetry(script)
              IN  IF ~r.ok
                  THEN /\ Return(1)
                       /\ recErr' = r.err
                       /\ UNCHANGED <<recAgg, recK>>
                  ELSE /\ recAgg' = AddSimilar(recAgg, seedSet, seed,
                                               GetSimilarArtists(seed), 1)
                       /\ recK' = recK + 1
                       /\ pc' = IF recK + 1 > Len(recSeeds) THEN "rank" ELSE "similar"
                       /\ UNCHANGED <<recErr, status, rawFile, rawBuf>>
  /\ UNCHANGED <<recSeeds, recCands, recTracks, recOut>>
  /\ RecFrame

\* artistCands: collected from the map, sorted, cut, ranked
RecRankArtists ==
  /\ pc = "rank" /\ cmd = "recommend"
  /\ \E order \in MapOrders(recAgg) :
       LET top == rankArtists(order, rkOpt.SimilarArtistsLimit)
       IN  /\ recCands' = [i \in 1..Len(top) |-> ("Rank" :> i) @@ top[i]]
           /\ pc' = IF top = <<>> THEN "emit" ELSE "toptracks"
  /\ recK' = 1
  /\ UNCHANGED <<recSeeds, recAgg, recTracks, recCalls, recErr, recOut,
                 status, rawFile, rawBuf>>
  /\ RecFrame

\* one pass of "for _, a := range artistCands"
RecTopTracks ==
  /\ pc = "toptracks" /\ cmd = "recommend"
  /\ LET a == recCands[recK]
     IN  /\ recCalls' = Append(recCalls, <<"artist.gettoptracks", a.Artist>>)
         /\ \E script \in RecScripts :
              LET r == getWithRetry(script)
                  ts == TracksOfArtist(store, a, RkTopTracks(a.Artist), 1, {})
                  room == rkOpt.CandidateTracksLimit - Len(recTracks)
                  all == recTracks \o AppendUpToCap(ts, room)
              IN  IF ~r.ok
                  THEN /\ Return(1)
                       /\ recErr' = r.err
                       /\ UNCHANGED <<recTracks, recK>>
                  ELSE /\ recTracks' = all
                       /\ recK' = recK + 1
                       /\ pc' = IF \/ Len(all) >= rkOpt.CandidateTracksLimit
                                   \/ recK + 1 > Len(recCands)
                                THEN "emit" ELSE "toptracks"
                       /\ UNCHANGED <<recErr, status, rawFile, rawBuf>>
  /\ UNCHANGED <<recSeeds, recAgg, recCands, recOut>>
  /\ RecFrame

\* the final sort, Build returns, cmdRecommend writes the document
RecEmit ==
  /\ pc = "emit" /\ cmd = "recommend"
  /\ recOut' = [emitted |-> TRUE, Seeds |-> recSeeds, Artists |-> recCands,
                Tracks |-> rankTracks(recTracks, rkOpt)]
  /\ Return(0)
  /\ UNCHANGED <<recSeeds, recAgg, recCands, recK, recTracks, recCalls, recErr>>
  /\ RecFrame

NextAbort ==
  \/ StartBackfill
  \/ StartSync
  \/ BackfillFetch
  \/ BackfillInsert
  \/ BackfillEndPage
  \/ SyncFetch
  \/ SyncInsert
  \/ SyncEndPage
  \/ StartRecommend
  \/ RecSeeds
  \/ RecSimilar
  \/ RecRankArtists
  \/ RecTopTracks
  \/ RecEmit

SpecAbort == InitAbort /\ [][NextAbort]_vars

\* C18: a page fetch of backfill or sync that returns an error ends the run
\* at once with exit status 1, the table as it was; a remote call of
\* recommend that returns an error does the same and no document is
\* written; an error is returned exactly when the wrapper's last call
\* failed (the error is not retryable, or it is and the attempts are used
\* up); after the error the run makes no remote call and no insert: the
\* next step of the program is the start of another run.
C18_AbortOnRemoteError ==
  [][/\ (cmd \in {"backfill", "sync"} /\ pc = "fetch" /\ pc' = "idle" /\ fetched' = fetched)
          => (status' = "error" /\ store' = store /\ inserted' = inserted)
     /\ (cmd = "recommend" /\ recErr = NoErr /\ recErr' # NoErr)
          => /\ status' = "error" /\ pc' = "idle"
             /\ store' = store
             /\ recOut' = NoDoc
             /\ ~IsRetryable(recErr') \/ recErr' = APIError(29)
     /\ status = "error"
          => /\ pc = "idle"
             /\ runs' = runs + 1
             /\ store' = store
             /\ cmd = "recommend" => (recOut = NoDoc /\ recErr # NoErr)
             /\ status' = "running" /\ recCalls' \in {recCalls, <<>>}
    ]_vars

\* recommend, run on a table that backfill filled, made a successful call
\* and then a failing one, and ended with status 1
C18_Witness ==
  /\ cmd = "recommend" /\ status = "error"
  /\ store # <<>>
  /\ Len(recCalls) >= 2
  /\ recErr = APIError(6)

-----------------------------------------------------------------------------
(* A run at its blocking calls: the client call (bound to ctx by            *)
(* http.NewRequestWithContext), time.Sleep(backoff) in the retry wrappers   *)
(* and the pacing time.Sleep between pages, seeds and candidates.  The      *)
(* wrappers and recommend.Build take ctx from their caller; run() passes    *)
(* context.Background() and installs no signal handler, so a signal sent to *)
(* the process ends it by the runtime's default action.  Sleeps are counted *)
(* in seconds, the pacing sleep (250 ms / 200 ms) as one unit.              *)

\* the error of a request whose context is done
CtxError == [kind |-> "ctx", code |-> 0]

PacingSleep == 1

InitCancel ==
  /\ IdleMain /\ IdleRetry /\ IdleHash /\ IdleIns /\ IdleQuery
  /\ IdleRank /\ IdleClass /\ IdleRec
  /\ cxKind \in RetryKinds
  /\ cxR = RetryStart
  /\ cxPhase = "call"
  /\ cxLeft = 0
  /\ cxPage = 1
  /\ cxDone = FALSE
  /\ cxAt = "none"
  /\ cxSleptAfter = 0
  /\ cxCallsAfter = 0

notCancel == <<mainVars, retryVars, hashVars, insVars, queryVars, rankVars, classVars,
               recVars>>

\* the client call returns: with the context's error if the context is done,
\* else with what the service answered; then the rest of the loop body up
\* to the sleep
CallEnds ==
  /\ cxPhase = "call"
  /\ \E o \in (IF cxDone THEN {CtxError} ELSE CallOutcomes) :
       LET r == RetryIter(cxR, o, MaxAttemptsOf(cxKind), MaxBackoffOf(cxKind))
       IN  /\ cxR' = r
           /\ IF ~r.done
              THEN /\ cxPhase' = "backoff"
                   /\ cxLeft' = cxR.backoff
              ELSE IF r.ok /\ cxPage < MaxCancelPages
              THEN /\ cxPhase' = "pacing"
                   /\ cxLeft' = PacingSleep
              ELSE /\ cxPhase' = "returned"
                   /\ cxLeft' = 0
  /\ UNCHANGED <<cxKind, cxPage, cxDone, cxAt, cxSleptAfter, cxCallsAfter, notCancel>>

\* time.Sleep goes on (it does not read ctx); when it is over, the next
\* client call is made: the next attempt, or the first attempt for the next
\* page, seed or candidate
Sleep ==
  /\ cxPhase \in {"backoff", "pacing"}
  /\ cxLeft' = cxLeft - 1
  /\ cxSleptAfter' = IF cxDone THEN cxSleptAfter + 1 ELSE cxSleptAfter
  /\ IF cxLeft > 1
     THEN UNCHANGED <<cxPhase, cxR, cxPage, cxCallsAfter>>
     ELSE /\ cxPhase' = "call"
          /\ cxR' = IF cxPhase = "pacing" THEN RetryStart ELSE cxR
          /\ cxPage' = IF cxPhase = "pacing" THEN cxPage + 1 ELSE cxPage
          /\ cxCallsAfter' = IF cxDone THEN cxCallsAfter + 1 ELSE cxCallsAfter
  /\ UNCHANGED <<cxKind, cxDone, cxAt, notCancel>>

\* the caller of the run cancels the context
CancelCtx ==
  /\ cxPhase \in {"call", "backoff", "pacing"}
  /\ ~cxDone
  /\ cxDone' = TRUE
  /\ cxAt' = cxPhase
  /\ UNCHANGED <<cxKind, cxR, cxPhase, cxLeft, cxPage, cxSleptAfter, cxCallsAfter,
                 notCancel>>

\* SIGINT / SIGTERM to the process: no handler is installed, the process
\* ends, nothing deferred runs
Interrupt ==
  /\ cxPhase \in {"call", "backoff", "pacing"}
  /\ cxPhase' = "killed"
  /\ cxLeft' = 0
  /\ UNCHANGED <<cxKind, cxR, cxPage, cxDone, cxAt, cxSleptAfter, cxCallsAfter,
                 notCancel>>

NextCancel == CallEnds \/ Sleep \/ CancelCtx \/ Interrupt

SpecCancel == InitCancel /\ [][NextCancel]_vars

-----------------------------------------------------------------------------
(* Backfill against a feed that grows while the pages are walked *)

\* the user's scrobbles, newest first; the feed is always the oldest n of
\* them
PagesTimeline ==
  <<QTrack(ClockBase - 1 * Day,   "a", "x", "lp"),
    QTrack(ClockBase - 2 * Day,   "a", "y", ""),
    QTrack(ClockBase - 3 * Day,   "b", "x", "lp"),
    QTrack(ClockBase - 4 * Day,   "b", "y", "lp"),
    QTrack(ClockBase - 5 * Day,   "c", "z", ""),
    QTrack(ClockBase - 6 * Day,   "a", "x", "lp"),
    QTrack(ClockBase - 7 * Day,   "a", "y", ""),
    QTrack(ClockBase - 8 * Day,   "b", "x", "lp")>>

OldestOf(n) == SubSeq(PagesTimeline, Len(PagesTimeline) - n + 1, Len(PagesTimeline))

InitPages ==
  /\ IdleRetry /\ IdleHash /\ IdleIns /\ IdleRest
  /\ feed \in {OldestOf(n) : n \in 0..MaxFeed}
  /\ nowPlaying \in {<<>>, <<TrkNowPlaying>>}
  /\ store = <<>> /\ rawFile = <<>> /\ rawBuf = <<>>
  /\ pc = "idle" /\ cmd = "none" /\ status = "none"
  /\ page = 1 /\ totalPages = -1 /\ maxSeen = 0 /\ stop = FALSE
  /\ tracks = <<>> /\ idx = 1 /\ inserted = 0 /\ ignored = 0
  /\ fetched = <<>> /\ requested = {} /\ reportedTP = -1 /\ emptyAt = 0
  /\ lastRes = NoRes /\ lastTrack = NoTrack
  /\ rawStart = 0 /\ feedSame = TRUE
  /\ prev = "none"
  /\ runs = 0

\* the user scrobbles another track after the first response of a backfill
\* and before it asks for its next page
FeedGrowMidRun ==
  /\ pc = "fetch" /\ cmd = "backfill" /\ fetched # <<>>
  /\ Len(feed) < MaxFeed + MaxGrowth
  /\ Len(feed) < Len(PagesTimeline)
  /\ feed' = OldestOf(Len(feed) + 1)
  /\ feedSame' = FALSE
  /\ UNCHANGED <<nowPlaying, diskVars, runVars, fetched, requested, reportedTP, emptyAt,
                 lastRes, lastTrack, rawStart, prev, runs, retryVars, hashVars, insVars,
                 restVars>>

NextPages ==
  \/ StartBackfill
  \/ BackfillFetch
  \/ BackfillInsert
  \/ BackfillEndPage
  \/ FeedGrowMidRun

SpecPages == InitPages /\ [][NextPages]_vars

\* C20: from the first successful response of a backfill on, totalPages is
\* the value that response reported (1 if it reported 0), whatever later
\* responses report; the pages fetched are 1, 2, ... and never go past it,
\* and a run that ends normally without meeting an empty page has fetched
\* exactly that many.
C20_TotalPagesFixedOnce ==
  (cmd = "backfill" /\ fetched # <<>>) =>
    /\ totalPages = (IF reportedTP = 0 THEN 1 ELSE reportedTP)
    /\ \A k \in 1..Len(fetched) : fetched[k] = k
    /\ Len(fetched) <= totalPages
    /\ (status = "ok" /\ emptyAt = 0) => Len(fetched) = totalPages

\* a backfill walked its two pages and ended normally while the responses
\* after the first reported more pages
C20_Witness ==
  /\ cmd = "backfill" /\ status = "ok" /\ emptyAt = 0
  /\ Len(fetched) >= 2
  /\ RemotePage(feed, nowPlaying, 1).TotalPages > totalPages

\* ---------------------------------------------------------------------
\* The sync walk: overlap page, watermark, end of the walk
\* ---------------------------------------------------------------------

\* the first position of the page in progress whose timestamp overlaps the
\* watermark, 0 if there is none
OverlapAt(tr, seen) ==
  LET hits == {k \in 1..Len(tr) : Parsable(tr[k]) /\ seen # 0 /\ TsOf(tr[k]) <= seen}
  IN  IF hits = {} THEN 0 ELSE SetMin(hits)

\* C21: in a sync run, once an event with timestamp <= watermark has set
\* the stop flag, the page in progress is still processed to its end: the
\* flag alone never ends the run, which is still in the page while events
\* of it are left; when the run has returned successfully with the flag
\* set, the last event of the page was the last one passed to insert,
\* every event of that page has its key in the store, and the one
\* inserted last left an envelope if it was new.
C21_StopFinishesPage ==
  (cmd = "sync" /\ stop)
  => /\ (pc = "page" /\ idx <= Len(tracks)) => status = "running"
     /\ status = "ok"
          => /\ idx = Len(tracks) + 1
             /\ lastTrack = tracks[Len(tracks)]
             /\ \A k \in 1..Len(tracks) :
                  Parsable(tracks[k]) => HasKey(store, KeyOf(tracks[k]))
             /\ lastRes.envs = lastRes.Inserted

\* a sync run that ended successfully on a page whose first event
\* overlapped the watermark and whose last event, after it, was new
C21_Witness ==
  /\ cmd = "sync" /\ status = "ok" /\ stop
  /\ Len(tracks) >= 2
  /\ OverlapAt(tracks, maxSeen) = 1
  /\ lastTrack = tracks[Len(tracks)]
  /\ lastRes.Inserted = 1

\* the rows the store held when the run in progress began: the run has
\* appended one row per inserted event
StartStore == SubSeq(store, 1, Len(store) - inserted)

\* the largest played_at_uts of the rows, 0 for no rows
StoreMax(rows) ==
  IF rows = <<>> THEN 0
  ELSE CHOOSE m \in {rows[k].played_at_uts : k \in 1..Len(rows)} :
         \A k \in 1..Len(rows) : rows[k].played_at_uts <= m

\* C22: sync reads the watermark once per run, from the store, before the
\* first page fetch: throughout a run, from before its first fetch on, the
\* watermark is the largest timestamp the store held when the run began
\* (0 for an empty store), whatever the run has inserted since; and the
\* stop flag is set exactly when an event of the page in progress that
\* was passed to insert has a timestamp <= that value, the value not
\* being 0.
C22_WatermarkReadOnce ==
  cmd = "sync"
  => /\ maxSeen = StoreMax(StartStore)
     /\ fetched = <<>> => (~stop /\ inserted = 0)
     /\ status \in {"running", "ok"}
          => stop = (\E k \in 1..(idx - 1) :
                       /\ k <= Len(tracks)
                       /\ Parsable(tracks[k])
                       /\ maxSeen # 0
                       /\ TsOf(tracks[k]) <= maxSeen)

\* a sync run with a non-zero watermark has inserted an event above the
\* watermark and then one between the watermark and the new largest
\* stored timestamp, and the stop flag is still clear
C22_Witness ==
  /\ cmd = "sync" /\ pc = "page" /\ ~stop
  /\ maxSeen # 0
  /\ lastRes.called /\ ~lastRes.err /\ Parsable(lastTrack)
  /\ maxSeen < TsOf(lastTrack)
  /\ TsOf(lastTrack) < StoreMax(store)

\* C23: with watermark 0 (empty store) sync never sets the stop flag,
\* whatever timestamps the events carry; the walk then ends successfully
\* only on an empty page, which is the last page fetched, and the page
\* count the remote reports bounds nothing: sync never sets totalPages
\* and fetches past the reported count.
C23_ZeroWatermarkWalksToEmptyPage ==
  cmd = "sync"
  => /\ totalPages = -1
     /\ maxSeen = 0
        => /\ ~stop
           /\ status = "ok" => (emptyAt # 0 /\ emptyAt = Len(fetched))
           /\ \A k \in 1..Len(fetched) : fetched[k] = k

\* a successful sync run with watermark 0: it fetched both non-empty pages
\* and one page more than the reported count, the empty one
C23_Witness ==
  /\ cmd = "sync" /\ status = "ok" /\ maxSeen = 0
  /\ reportedTP = 2
  /\ Len(fetched) = reportedTP + 1
  /\ emptyAt = 3
  /\ inserted >= 2

\* ---------------------------------------------------------------------
\* Walks over a feed that does not change, run to their end
\* ---------------------------------------------------------------------

NextWalk ==
  \/ StartBackfill
  \/ StartSync
  \/ BackfillFetch
  \/ BackfillInsert
  \/ BackfillEndPage
  \/ SyncFetch
  \/ SyncInsert
  \/ SyncEndPage

\* a step of the loop of cmdSync
SyncStep == SyncFetch \/ SyncInsert \/ SyncEndPage

\* The process is never suspended for ever: a sync run that can take a
\* step takes one (every step is a bounded retry loop, one insert or one
\* flush).
SpecWalk == Init /\ [][NextWalk]_vars /\ WF_vars(SyncStep)

\* the number of non-empty pages of the feed
NonEmptyPages(fd, np) ==
  Cardinality({pg \in 1..(Len(fd) + 1) : Len(RemotePage(fd, np, pg).Tracks) > 0})

\* C24: over any feed with finitely many non-empty pages, in timestamp
\* order or not, a sync run reaches a terminal state, success or reported
\* error, after finitely many page fetches: it fetches the pages 1, 2, ...
\* each once, at most one more than there are non-empty pages, and it ends;
\* the store it leaves has no two rows with the same key.
C24_SyncTerminates ==
  /\ [](cmd = "sync"
        => /\ \A k \in 1..Len(fetched) : fetched[k] = k
           /\ Len(fetched) <= NonEmptyPages(feed, nowPlaying) + 1
           /\ \A i, j \in 1..Len(store) :
                i < j => store[i].source_hash # store[j].source_hash)
  /\ (cmd = "sync" /\ pc # "idle")
       ~> (cmd = "sync" /\ pc = "idle" /\ status \in {"ok", "error"})

\* a sync run with a non-zero watermark ended successfully on a page out
\* of timestamp order: the older event came first and set the stop flag
C24_Witness ==
  /\ cmd = "sync" /\ pc = "idle" /\ status = "ok"
  /\ \A k \in 1..Len(feed) : Parsable(feed[k])
  /\ Len(feed) = MaxFeed
  /\ maxSeen # 0 /\ stop
  /\ Len(tracks) = 2
  /\ TsOf(tracks[1]) < TsOf(tracks[2])

\* ---------------------------------------------------------------------
\* Catching up: the feed grows between runs, sync fetches what is new
\* ---------------------------------------------------------------------

\* the user scrobbles another track while no command runs
FeedGrowBetweenRuns ==
  /\ pc = "idle"
  /\ Len(feed) < MaxFeed + MaxGrowth
  /\ Len(feed) < Len(PagesTimeline)
  /\ feed' = OldestOf(Len(feed) + 1)
  /\ feedSame' = FALSE
  /\ UNCHANGED <<nowPlaying, diskVars, runVars, fetched, requested, reportedTP, emptyAt,
                 lastRes, lastTrack, rawStart, prev, runs, retryVars, hashVars, insVars,
                 restVars>>

NextCatchUp ==
  \/ StartBackfill
  \/ StartSync
  \/ BackfillFetch
  \/ BackfillInsert
  \/ BackfillEndPage
  \/ SyncFetch
  \/ SyncInsert
  \/ SyncEndPage
  \/ FeedGrowBetweenRuns

SpecCatchUp == InitPages /\ [][NextCatchUp]_vars

\* the store held, when the run began, every event of the feed at or below
\* the watermark of the run
HeldUpToWatermark ==
  \A k \in 1..Len(feed) :
    TsOf(feed[k]) <= maxSeen => HasKey(StartStore, KeyOf(feed[k]))

\* C25: sync completeness. If the feed did not change during the run and
\* is in descending timestamp order, the watermark W is not 0 and the store
\* held every feed event with timestamp <= W when the run began, then once
\* the run has ended without error the store holds (by key) every
\* timestamped event of the feed.
C25_SyncComplete ==
  (/\ cmd = "sync" /\ status = "ok" /\ feedSame
   /\ maxSeen # 0
   /\ Descending(feed)
   /\ HeldUpToWatermark)
  => \A k \in 1..Len(feed) : HasKey(store, KeyOf(feed[k]))

\* such a run that had two pages of new events to insert and stopped on
\* the third page
C25_Witness ==
  /\ cmd = "sync" /\ status = "ok" /\ feedSame
  /\ maxSeen # 0
  /\ Descending(feed)
  /\ HeldUpToWatermark
  /\ inserted >= 3
  /\ Len(fetched) = 3
  /\ stop

\* ---------------------------------------------------------------------
\* Backfill while the feed grows
\* ---------------------------------------------------------------------

\* events that were in the feed when the backfill in progress began: the
\* feed grows only at its head and only after the first response, which
\* reported reportedTP pages, so the feed held then more than
\* PageLimit * (reportedTP - 1) of the oldest events
KnownAtStart ==
  IF reportedTP < 1 THEN <<>> ELSE OldestOf(PageLimit * (reportedTP - 1) + 1)

\* C26: backfill completeness under feed growth. When a backfill run has
\* ended without error, every timestamped event that was in the feed when
\* the run began is in the store, also when events were added at the
\* head of the feed between page fetches.
C26_BackfillCompleteUnderGrowth ==
  (cmd = "backfill" /\ status = "ok")
  => \A k \in 1..Len(KnownAtStart) : HasKey(store, KeyOf(KnownAtStart[k]))

\* ---------------------------------------------------------------------
\* The raw log: buffer and file
\* ---------------------------------------------------------------------

\* C27: the raw-log buffer is flushed after every processed page of
\* backfill and sync and when the store is closed on every return of a
\* run: between pages and after a return no envelope is left unwritten,
\* and while a page is processed the unwritten envelopes are events of
\* that page that were already passed to insert.
C27_BufferHoldsOnePage ==
  /\ pc \in {"idle", "fetch"} => rawBuf = <<>>
  /\ pc = "page"
       => /\ Len(rawBuf) <= idx - 1
          /\ \A k \in 1..Len(rawBuf) : \E j \in 1..(idx - 1) : tracks[j] = rawBuf[k]
  /\ status \in {"ok", "error"} => Len(rawFile) - rawStart = inserted

\* the second page of a run is being processed: its new event is in the
\* buffer, the two of the first page are in the file
C27_Witness ==
  /\ pc = "page" /\ page = 2 /\ idx = 2
  /\ Len(rawBuf) = 1
  /\ Len(rawFile) - rawStart = 2

\* the number of envelopes of the raw log file with the given key
EnvelopesOf(key) ==
  Cardinality({j \in 1..Len(rawFile) : Parsable(rawFile[j]) /\ KeyOf(rawFile[j]) = key})

C29_BackoffWithinMaximum ==
  LET d == rState.delays
  IN  /\ Len(d) >= 1 => d[1] = InitialBackoff
      /\ \A k \in 1..(Len(d) - 1) : d[k + 1] \in {2 * d[k], d[k]}
      /\ \A k \in 1..Len(d) : d[k] <= MaxBackoffOf(rKind)

\* C30: a non-retryable error ends the retry loop at once with that error.
\* When the first call fails with one, the loop has made exactly one call,
\* slept no delay and returns that error; at a later call likewise: the
\* loop is over, returns the error of that call, slept only between the
\* calls before, and every call before failed with a retryable error.
C30_NonRetryableEndsLoop ==
  LET n == Len(rCalls)
  IN  (n >= 1 /\ rCalls[n] # Ok /\ ~IsRetryable(rCalls[n]))
      => /\ rState.done /\ ~rState.ok
         /\ rState.err = rCalls[n]
         /\ Len(rState.delays) = n - 1
         /\ n = 1 => rState.delays = <<>>
         /\ \A k \in 1..(n - 1) : rCalls[k] # Ok /\ IsRetryable(rCalls[k])

\* the first call of the page wrapper failed with API error 6
C30_Witness ==
  /\ rKind = "page"
  /\ rCalls = <<APIError(6)>>
  /\ rState.done /\ rState.err = APIError(6)
  /\ rState.delays = <<>>

\* ---------------------------------------------------------------------
\* An event with an unparsable timestamp
\* ---------------------------------------------------------------------

\* C31: an event whose timestamp string is non-empty but no integer makes
\* InsertScrobble return an error and leaves table and raw log as they
\* were; the run, backfill or sync, has then returned with exit status 1
\* with that event as the last one passed to insert, the events after it
\* on the page unprocessed; the events inserted earlier in the run are
\* still stored and their envelopes written.
C31_UnparsableTimestampAborts ==
  (lastRes.called /\ lastTrack.hasDate /\ lastTrack.uts # <<>>
     /\ parseI64(lastTrack.uts).err)
  => /\ lastRes.err
     /\ lastRes.Inserted = 0 /\ lastRes.Ignored = 0
     /\ lastRes.rows = 0 /\ lastRes.envs = 0
     /\ pc = "idle" /\ status = "error"
     /\ idx <= Len(tracks) /\ tracks[idx] = lastTrack
     /\ \A k \in 1..(idx - 1) : Parsable(tracks[k]) => HasKey(store, KeyOf(tracks[k]))
     /\ Len(rawFile) - rawStart = inserted
     /\ rawBuf = <<>>

\* a run inserted the first event of a page and aborted on the second,
\* unparsable one; the event after it in the feed is not in the store
C31_Witness ==
  /\ lastRes.called /\ lastRes.err /\ lastTrack = TrkBadUTS
  /\ status = "error" /\ feedSame
  /\ inserted >= 1 /\ idx = 2
  /\ Len(feed) = 3 /\ Parsable(feed[3]) /\ ~HasKey(store, KeyOf(feed[3]))

\* ---------------------------------------------------------------------
\* Read-only commands
\* ---------------------------------------------------------------------

\* C32: verify, digest build and recommendation build are read-only: a
\* query of theirs, whether it returns a result or an error, and the exit
\* of the command leave the rows of the table and the raw log as they
\* were; the only step that changes either is the ingest of an event, the
\* InsertScrobble and AppendRaw of backfill and sync.
C32_QueriesReadOnly ==
  [][/\ (qOut'.kind \in AnalyticKinds \cup {"verify", "meta", "none"})
          => (qRows' = qRows /\ qRaw' = qRaw)
     /\ (qRows' # qRows \/ qRaw' # qRaw) => qOut'.kind = "ingest"]_vars

\* a local-play query of recommend has answered over a table that holds
\* as many rows as the bound allows, each with its envelope
C32_Witness ==
  /\ qOut.kind = "localStats" /\ ~qOut.err
  /\ Len(qRows) = MaxRows
  /\ Len(qRaw) = MaxRows

\* ---------------------------------------------------------------------
\* Signature artists over tables with more artists in a year than the cut
\* ---------------------------------------------------------------------

MaxSigYears == 2

\* k = 1 is of artist 1, k = 2, 3 of artist 2, k = 4, 5, 6 of artist 3, ...
TriIndex(k) == CHOOSE i \in 1..k : (i - 1) * i < 2 * k /\ 2 * k <= i * (i + 1)

\* The rows of n artists played in year 2000 + y: with w = 2^(y - 1), the
\* i-th artist has w * i plays (up) or w * (n - i + 1) plays (down), so no
\* two artists of a year tie, nor do the sums of two artists over the same
\* years.
SigRows(y, n, up) ==
  LET w == 2 ^ (y - 1)
  IN  [k \in 1..(w * ((n * (n + 1)) \div 2)) |->
         LET i == TriIndex(((k - 1) \div w) + 1)
         IN  [played_at_uts |-> DaysBeforeYear(2000 + y) * Day + k,
              track_name    |-> "t",
              artist_name   |-> <<"artist", IF up THEN i ELSE n - i + 1>>,
              album_name    |-> NULL,
              source_hash   |-> <<"sha256", y, k>>]]

\* a year has one artist, as many as the cut, or one more
SigShapes ==
  {[n |-> n, up |-> u] : n \in {1, SignatureTopCut, SignatureTopCut + 1}, u \in BOOLEAN}

RECURSIVE SigTable(_, _)
SigTable(shape, y) ==
  IF y = 0 THEN <<>>
  ELSE SigTable(shape, y - 1) \o SigRows(y, shape[y].n, shape[y].up)

InitSignature ==
  /\ IdleMain /\ IdleRetry /\ IdleHash /\ IdleIns /\ IdleLater
  /\ \E shape \in [1..MaxSigYears -> SigShapes] :
       /\ qRows = SigTable(shape, MaxSigYears)
       /\ qRaw = <<>>
  /\ qNow = ClockBase
  /\ qOut = NoOut

SignatureOverYears ==
  Query("signature", {<<y, n>> : y \in {1, MaxSigYears},
                                 n \in {1, DefaultOptions.SignatureLimit}})

NextSignature ==
  \/ SignatureOverYears
  \/ CommandExit

SpecSignature == InitSignature /\ [][NextSignature]_vars

\* plays[a, y] of artist a in year y among the dated rows
SigCount(rows) ==
  LET dated == {k \in Idx(rows) : rows[k].played_at_uts >= MinSaneUTS}
      yr    == [k \in dated |-> YearOf(rows[k].played_at_uts)]
  IN  [a \in {rows[k].artist_name : k \in dated}, y \in {yr[k] : k \in dated} |->
         Cardinality({k \in dated : rows[k].artist_name = a /\ yr[k] = y})]

SigArtistsOf(P) == {d[1] : d \in DOMAIN P}

SigYearsOf(P) == {d[2] : d \in DOMAIN P}

\* the years in which a is surely among the 20 highest-play artists (fewer
\* than 20 others have as many plays) and those in which it may be (fewer
\* than 20 have more)
SigSureYears(P, a) ==
  {y \in SigYearsOf(P) :
     /\ P[a, y] > 0
     /\ Cardinality({b \in SigArtistsOf(P) \ {a} : P[b, y] >= P[a, y]}) < SignatureTopCut}

SigMayYears(P, a) ==
  {y \in SigYearsOf(P) :
     /\ P[a, y] > 0
     /\ Cardinality({b \in SigArtistsOf(P) : P[b, y] > P[a, y]}) < SignatureTopCut}

RECURSIVE SigSum(_, _, _)
SigSum(P, a, years) ==
  IF years = {} THEN 0
  ELSE LET y == CHOOSE z \in years : TRUE IN P[a, y] + SigSum(P, a, years \ {y})

\* what holds of every signature list: its entries are qualifying artists,
\* each once, with their counts, and in order
SigListSound(P, r, minYears) ==
  /\ \A k \in 1..Len(r) :
       LET e    == r[k]
           sure == SigSureYears(P, e.artist)
           may  == SigMayYears(P, e.artist)
       IN  /\ e.rank = k
           /\ e.years_in_top >= minYears
           /\ Cardinality(sure) <= e.years_in_top
           /\ e.years_in_top <= Cardinality(may)
           /\ sure = may
                => /\ e.first_year = SetMin(sure)
                   /\ e.last_year = SetMax(sure)
                   /\ e.plays_in_top_years = SigSum(P, e.artist, sure)
  /\ \A i, j \in 1..Len(r) : i < j =>
       /\ r[i].artist # r[j].artist
       /\ r[i].years_in_top >= r[j].years_in_top
       /\ r[i].years_in_top = r[j].years_in_top
            => r[i].plays_in_top_years >= r[j].plays_in_top_years

\* the artists that qualify whatever the engine does with ties
SigQualified(P, minYears) ==
  {a \in SigArtistsOf(P) : Cardinality(SigSureYears(P, a)) >= minYears}

SigListed(r) == {r[k].artist : k \in 1..Len(r)}

\* C34 as stated: an artist is listed if and only if it is among the 20
\* highest-play artists of its year in at least SignatureMinYears distinct
\* years; the list is ordered by year count, then summed plays, both
\* descending; first_year and last_year are the first and last such year.
C34_SignatureIffQualified ==
  qOut.kind = "signature"
  => LET P == SigCount(qRows)
     IN  /\ SigListSound(P, qOut.out, qOut.args[1])
         /\ SigQualified(P, qOut.args[1]) \subseteq SigListed(qOut.out)

\* C34: as above, with the list cut at SignatureLimit entries: a qualifying
\* artist may be missing only from a list that is full, and then it does
\* not sort before the last entry.
C34_SignatureWithinLimit ==
  qOut.kind = "signature"
  => LET P == SigCount(qRows)
         r == qOut.out
         minYears == qOut.args[1]
         limit == qOut.args[2]
     IN  /\ SigListSound(P, r, minYears)
         /\ Len(r) <= limit
         /\ \A a \in SigQualified(P, minYears) \ SigListed(r) :
              /\ Len(r) = limit
              /\ SigSureYears(P, a) = SigMayYears(P, a)
                   => \/ r[limit].years_in_top > Cardinality(SigSureYears(P, a))
                      \/ /\ r[limit].years_in_top = Cardinality(SigSureYears(P, a))
                         /\ r[limit].plays_in_top_years
                              >= SigSum(P, a, SigSureYears(P, a))

\* two years with 21 artists each, in opposite orders of plays: the list
\* holds the 19 artists that are within the first 20 in both years, and
\* neither of the two that are 21st in one of them
C34_Witness ==
  /\ qOut.kind = "signature"
  /\ qOut.args = <<2, DefaultOptions.SignatureLimit>>
  /\ Cardinality(SigArtistsOf(SigCount(qRows))) = SignatureTopCut + 1
  /\ Len(qOut.out) = SignatureTopCut - 1
  /\ <<"artist", 1>> \notin SigListed(qOut.out)
  /\ <<"artist", SignatureTopCut + 1>> \notin SigListed(qOut.out)

-----------------------------------------------------------------------------
(* recommend.Build over the options it can be called with, on tables with  *)
(* recent plays (the seeds) and an older play of an artist the service     *)
(* names as similar                                                        *)

\* plays of a/x, b/y and D/v within the seed window, and a play of D/v before it
BuildPlays ==
  <<QTrack(ClockBase - 5 * Day,   "a", "x", "lp"),
    QTrack(ClockBase - 6 * Day,   "b", "y", "lp"),
    QTrack(ClockBase - 7 * Day,   "D", "v", ""),
    QTrack(ClockBase - 200 * Day, "D", "v", "")>>

\* the table after the plays numbered in I were ingested
RECURSIVE BuildStore(_, _)
BuildStore(I, k) ==
  IF k = 0 THEN <<>>
  ELSE IF k \in I THEN InsertScrobble(BuildStore(I, k - 1), BuildPlays[k]).rows
  ELSE BuildStore(I, k - 1)

BuildOptions ==
  {[RecommendOptions EXCEPT !.ExcludeSeedArtists = ex,
                            !.SimilarArtistsLimit = sl,
                            !.CandidateTracksLimit = cl] :
     ex \in BOOLEAN, sl \in {1, RecommendOptions.SimilarArtistsLimit},
     cl \in {0, 1, 3, RecommendOptions.CandidateTracksLimit}}

InitBuild ==
  /\ IdleRetry /\ IdleHash /\ IdleIns /\ IdleQuery
  /\ IdleClass /\ IdleRec /\ IdleCancel
  /\ rkArt = <<>> /\ rkPrev = <<>> /\ rkOut = <<>> /\ rkRaised = "" /\ rkPhase = "first"
  /\ rkOpt \in BuildOptions
  /\ feed = <<>> /\ nowPlaying = <<>>
  /\ \E I \in SUBSET (1..Len(BuildPlays)) : store = BuildStore(I, Len(BuildPlays))
  /\ rawFile = <<>> /\ rawBuf = <<>>
  /\ pc = "idle" /\ cmd = "none" /\ status = "none"
  /\ page = 1 /\ totalPages = -1 /\ maxSeen = 0 /\ stop = FALSE
  /\ tracks = <<>> /\ idx = 1 /\ inserted = 0 /\ ignored = 0
  /\ fetched = <<>> /\ requested = {} /\ reportedTP = -1 /\ emptyAt = 0
  /\ lastRes = NoRes /\ lastTrack = NoTrack
  /\ rawStart = 0 /\ feedSame = TRUE
  /\ prev = "none"
  /\ runs = 0

NextBuild ==
  \/ StartRecommend
  \/ RecSeeds
  \/ RecSimilar
  \/ RecRankArtists
  \/ RecTopTracks
  \/ RecEmit

SpecBuild == InitBuild /\ [][NextBuild]_vars

\* the sum of the match values of the entries of sim[k..] named key
RECURSIVE MatchTotal(_, _, _)
MatchTotal(sim, key, k) ==
  IF k > Len(sim) THEN 0
  ELSE (IF ToLower(TrimSpace(sim[k].Name)) = key THEN sim[k].Match ELSE 0)
       + MatchTotal(sim, key, k + 1)

\* the seeds whose similar-artist result names key
SeedsNaming(seeds, key) ==
  {sd \in seeds : \E k \in 1..Len(GetSimilarArtists(sd)) :
                    ToLower(TrimSpace(GetSimilarArtists(sd)[k].Name)) = key}

RECURSIVE SeedsTotal(_, _)
SeedsTotal(seeds, key) ==
  IF seeds = {} THEN 0
  ELSE LET sd == CHOOSE x \in seeds : TRUE
       IN  MatchTotal(GetSimilarArtists(sd), key, 1) + SeedsTotal(seeds \ {sd}, key)

\* C35: every candidate artist of the output has as score the sum of the
\* match values over the seeds whose similar-artist result names it, names
\* compared without regard to case; its from_seed_artists are those seeds;
\* with seed exclusion on it is no seed; at most SimilarArtistsLimit
\* candidates are kept, in non-increasing order of score.
C35_SimilarMerged ==
  recOut.emitted =>
    LET A     == recOut.Artists
        seeds == {recOut.Seeds[i].artist : i \in 1..Len(recOut.Seeds)}
    IN  /\ \A i \in 1..Len(A) :
             /\ A[i].Artist # ""
             /\ A[i].From = SeedsNaming(seeds, A[i].Artist)
             /\ A[i].From # {}
             /\ A[i].Score = SeedsTotal(A[i].From, A[i].Artist)
             /\ rkOpt.ExcludeSeedArtists => A[i].Artist \notin {ToLower(sd) : sd \in seeds}
        /\ Len(A) <= rkOpt.SimilarArtistsLimit
        /\ \A i, j \in 1..Len(A) : i < j => A[i].Score >= A[j].Score

\* seeds a and b with exclusion on: the service names "D" for a and " d"
\* for b, merged into d with both matches; c is named too, and only one
\* candidate is kept
C35_Witness ==
  /\ recOut.emitted
  /\ rkOpt.ExcludeSeedArtists
  /\ rkOpt.SimilarArtistsLimit = 1
  /\ Len(recAgg) = 2
  /\ Len(recOut.Artists) = 1
  /\ recOut.Artists[1].Artist = "d"
  /\ recOut.Artists[1].From = {"a", "b"}
  /\ recOut.Artists[1].Score = 2

\* the names, as the service reports them to the seeds, of the artist
\* whose candidate key is key
ReportedNames(seeds, key) ==
  UNION {{TrimSpace(GetSimilarArtists(sd)[k].Name) :
            k \in {m \in 1..Len(GetSimilarArtists(sd)) :
                     ToLower(TrimSpace(GetSimilarArtists(sd)[m].Name)) = key}} :
         sd \in seeds}

\* C36: every candidate track of the output has as local_plays the number
\* of dated stored events of its artist, under a name the service reports
\* for it, and its track, and as local_last_played_uts the latest
\* timestamp among them, 0 if there is none.
C36_LocalPlaysAnnotated ==
  recOut.emitted =>
    LET seeds == {recOut.Seeds[i].artist : i \in 1..Len(recOut.Seeds)}
    IN  \A i \in 1..Len(recOut.Tracks) :
          LET t    == recOut.Tracks[i]
              mine == {k \in 1..Len(store) :
                         /\ store[k].played_at_uts >= MinSaneUTS
                         /\ store[k].artist_name \in ReportedNames(seeds, t.Artist)
                         /\ store[k].track_name = t.Track}
          IN  /\ t.LocalPlays = Cardinality(mine)
              /\ t.LocalLastPlayedUTS =
                   (IF mine = {} THEN 0 ELSE SetMax({store[k].played_at_uts : k \in mine}))

\* the top-tracks calls among the remote calls of the run
TopTracksCalls(calls) == SelectSeq(calls, LAMBDA c : c[1] = "artist.gettoptracks")

\* C37: whatever CandidateTracksLimit >= 0 is, the candidate tracks
\* collected are never more than it, and once they are as many the run
\* makes no further top-tracks call.
C37_CandidateCap ==
  [][cmd' = "recommend" =>
       /\ Len(recTracks') <= rkOpt'.CandidateTracksLimit
       /\ (cmd = "recommend" /\ status = "running"
             /\ Len(recTracks) >= rkOpt.CandidateTracksLimit)
            => Len(TopTracksCalls(recCalls')) <= Len(TopTracksCalls(recCalls))
    ]_vars

\* C38: in the track list of the output, with PreferUnplayed every track
\* without local plays comes before every track with local plays; among
\* the played and among the unplayed the scores do not increase, and of two
\* tracks with the same score the one played last earlier comes first;
\* without IncludePlayedTracks only tracks without local plays remain; the
\* ranks are 1..n in list order.
C38_FinalRanking ==
  rkPhase \in {"ranked", "reranked"} =>
    /\ \A i \in 1..Len(rkOut) : rkOut[i].Rank = i
    /\ ~rkOpt.IncludePlayedTracks => \A i \in 1..Len(rkOut) : rkOut[i].LocalPlays = 0
    /\ \A i, j \in 1..Len(rkOut) : i < j =>
         /\ rkOpt.PreferUnplayed => (rkOut[j].LocalPlays = 0 => rkOut[i].LocalPlays = 0)
         /\ (rkOut[i].LocalPlays = 0) = (rkOut[j].LocalPlays = 0)
              => /\ rkOut[i].Score >= rkOut[j].Score
                 /\ rkOut[i].Score = rkOut[j].Score
                      => rkOut[i].LocalLastPlayedUTS <= rkOut[j].LocalLastPlayedUTS

\* a and b have the same score: the unplayed tracks come first, then y of
\* b, played 180 days ago, then x of a, played 5 days ago
C38_Witness ==
  /\ rkPhase = "ranked"
  /\ rkOpt.PreferUnplayed /\ rkOpt.IncludePlayedTracks
  /\ Len(rkOut) >= 4
  /\ \E i \in 2..(Len(rkOut) - 1) :
       /\ rkOut[i - 1].LocalPlays = 0
       /\ rkOut[i].Artist = "b" /\ rkOut[i].Track = "y" /\ rkOut[i].LocalPlays = 1
       /\ rkOut[i + 1].Artist = "a" /\ rkOut[i + 1].Track = "x"
       /\ rkOut[i + 1].Score = rkOut[i].Score
       /\ rkOut[i + 1].LocalLastPlayedUTS > rkOut[i].LocalLastPlayedUTS

\* C39: on a table without rows computeMeta returns without error the
\* totals 0, 0, 0 and the dated minimum and maximum 0, and the recent, top,
\* resurface, yearly and signature queries return empty lists.
C39_EmptyStoreDigest ==
  qRows = <<>> =>
    /\ qOut.kind = "meta"
         => /\ ~qOut.err
            /\ qOut.out = [scrobbles_total |-> 0, scrobbles_dated |-> 0,
                           scrobbles_suspect |-> 0,
                           dated_min_uts |-> 0, dated_max_uts |-> 0]
    /\ qOut.kind \in {"recent", "topArtists", "topTracks", "topAlbums",
                       "resurfaceTracks", "resurfaceAlbums", "yearly", "signature"}
         => (~qOut.err /\ qOut.out = <<>>)

====
